---------------------------- MODULE Spec2Model ----------------------------
(***************************************************************************)
(* State-machine model of the fortune scoring core of the "Begin" backend: *)
(*   backend/app/services/fortune_scoring_engine.py  (FortuneScoringEngine) *)
(*   backend/app/services/special_pattern_service.py (SpecialPatternService)*)
(*   backend/app/services/bazi_service.py            (BaZiService)          *)
(*                                                                         *)
(* Conventions.                                                            *)
(*  - The Chinese labels of the source are written in pinyin, because the  *)
(*    parser accepts only ASCII strings.  Heavenly stems carry the prefix  *)
(*    tg_ and earthly branches the prefix dz_, after _TG_LIST / _DZ_LIST.  *)
(*      stems    : tg_jia 甲 tg_yi 乙 tg_bing 丙 tg_ding 丁 tg_wu 戊        *)
(*                 tg_ji 己 tg_geng 庚 tg_xin 辛 tg_ren 壬 tg_gui 癸         *)
(*      branches : dz_zi 子 dz_chou 丑 dz_yin 寅 dz_mao 卯 dz_chen 辰       *)
(*                 dz_si 巳 dz_wu 午 dz_wei 未 dz_shen 申 dz_you 酉          *)
(*                 dz_xu 戌 dz_hai 亥                                        *)
(*      elements : Wood 木  Fire 火  Earth 土  Metal 金  Water 水            *)
(*      ten gods : bi_jian 比肩 jie_cai 劫财 shi_shen 食神 shang_guan 伤官   *)
(*                 pian_yin 偏印 zheng_yin 正印 pian_cai 偏财 zheng_cai 正财 *)
(*                 qi_sha 七杀 zheng_guan 正官                               *)
(*      phases   : chang_sheng 长生 mu_yu 沐浴 guan_dai 冠带 lin_guan 临官   *)
(*                 di_wang 帝旺 shuai 衰 bing 病 si 死 mu 墓 jue 绝 tai 胎   *)
(*                 yang 养                                                  *)
(*  - Python floats are held as integers in hundredths (65.0 is 6500).     *)
(*    Every float the engine forms is a multiple of 0.05 in the exact      *)
(*    arithmetic; int() of a clamped score is the integer quotient by 100. *)
(***************************************************************************)
EXTENDS Integers, Sequences, FiniteSets, TLC

VARIABLES
    engine,           \* the FortuneScoringEngine instance: its attributes
    pattern_service,  \* the SpecialPatternService singleton: GOD_TYPES
    bazi_service,     \* the BaZiService class-level tables
    pc,               \* position of the sequential caller
    args,             \* arguments of the call being made
    ret,              \* value the call returned
    history,          \* the calls a sequential caller has made, with results
    threads,          \* concurrent callers: operation, arguments, position,
                      \* local variables and returned value of each
    _fortune_cache,         \* api/fortune.py: the in-memory cache, by cache key
    daily_fortune_details,  \* the table of that name: rows by (user, date, language)
    user_daily_draws,       \* the table of that name: rows by (user, date)
    locals                  \* local variables of a running get_daily_fortune

vars ==
    <<engine, pattern_service, bazi_service, pc, args, ret, history, threads,
      _fortune_cache, daily_fortune_details, user_daily_draws, locals>>

\* what only the request handler of api/fortune.py touches
web == <<_fortune_cache, daily_fortune_details, user_daily_draws, locals>>

NoValue == "NoValue"

(***************************************************************************)
(* FortuneScoringEngine.__init__                                           *)
(***************************************************************************)
BASE_SCORE == 6500
MIN_SCORE == 3000
MAX_SCORE == 10000
BAZI_SOFT_CAP == 9000
TAROT_MULTIPLIER_MINOR == 5
TAROT_MULTIPLIER_MAJOR == 6
FIERCE_GODS == {"qi_sha", "shang_guan", "jie_cai", "pian_yin"}
AUSPICIOUS_GODS ==
    {"zheng_guan", "shi_shen", "zheng_yin", "zheng_cai", "pian_cai", "bi_jian"}

\* offsets in hundredths: 0.5 is 50
TAROT_OFFSETS ==
    ("0_fool" :> [overall |-> 50, career |-> 20, study |-> 50, love |-> 50, wealth |-> -50, social |-> 150]) @@
    ("1_magician" :> [overall |-> 150, career |-> 150, study |-> 150, love |-> 80, wealth |-> 120, social |-> 150]) @@
    ("2_priestess" :> [overall |-> 50, career |-> 0, study |-> 180, love |-> -50, wealth |-> 0, social |-> -50]) @@
    ("3_empress" :> [overall |-> 150, career |-> 50, study |-> 50, love |-> 180, wealth |-> 150, social |-> 150]) @@
    ("4_emperor" :> [overall |-> 120, career |-> 200, study |-> 50, love |-> 50, wealth |-> 150, social |-> 80]) @@
    ("5_hierophant" :> [overall |-> 50, career |-> 100, study |-> 150, love |-> 50, wealth |-> 0, social |-> 120]) @@
    ("6_lovers" :> [overall |-> 120, career |-> 50, study |-> 0, love |-> 200, wealth |-> 0, social |-> 150]) @@
    ("7_chariot" :> [overall |-> 120, career |-> 200, study |-> 100, love |-> 50, wealth |-> 80, social |-> 0]) @@
    ("8_strength" :> [overall |-> 100, career |-> 150, study |-> 80, love |-> 120, wealth |-> 50, social |-> 80]) @@
    ("9_hermit" :> [overall |-> 0, career |-> -50, study |-> 180, love |-> -150, wealth |-> 0, social |-> -200]) @@
    ("10_wheel" :> [overall |-> 180, career |-> 120, study |-> 50, love |-> 100, wealth |-> 150, social |-> 80]) @@
    ("11_justice" :> [overall |-> 50, career |-> 120, study |-> 120, love |-> 20, wealth |-> 0, social |-> 0]) @@
    ("12_hanged_man" :> [overall |-> -50, career |-> -100, study |-> 100, love |-> -50, wealth |-> -80, social |-> -50]) @@
    ("13_death" :> [overall |-> -150, career |-> -150, study |-> -50, love |-> -150, wealth |-> -100, social |-> -100]) @@
    ("14_temperance" :> [overall |-> 120, career |-> 80, study |-> 100, love |-> 100, wealth |-> 50, social |-> 150]) @@
    ("15_devil" :> [overall |-> -120, career |-> 50, study |-> -100, love |-> -200, wealth |-> 150, social |-> -150]) @@
    ("16_tower" :> [overall |-> -200, career |-> -200, study |-> -180, love |-> -200, wealth |-> -200, social |-> -200]) @@
    ("17_star" :> [overall |-> 150, career |-> 80, study |-> 120, love |-> 120, wealth |-> 50, social |-> 100]) @@
    ("18_moon" :> [overall |-> -150, career |-> -100, study |-> -120, love |-> -150, wealth |-> -80, social |-> -120]) @@
    ("19_sun" :> [overall |-> 200, career |-> 180, study |-> 120, love |-> 150, wealth |-> 150, social |-> 180]) @@
    ("20_judgement" :> [overall |-> 150, career |-> 150, study |-> 100, love |-> 80, wealth |-> 50, social |-> 50]) @@
    ("21_world" :> [overall |-> 200, career |-> 200, study |-> 150, love |-> 180, wealth |-> 180, social |-> 150]) @@
    ("w_ace" :> [career |-> 200, study |-> 100, love |-> 50, wealth |-> 100, social |-> 80]) @@
    ("w_2" :> [career |-> 100, study |-> 80, love |-> 20, wealth |-> 50, social |-> 50]) @@
    ("w_3" :> [career |-> 150, study |-> 100, love |-> 50, wealth |-> 100, social |-> 50]) @@
    ("w_4" :> [overall |-> 150, career |-> 100, study |-> 20, love |-> 150, wealth |-> 100, social |-> 200]) @@
    ("w_5" :> [overall |-> -50, career |-> -120, study |-> -50, love |-> -80, wealth |-> -50, social |-> -200]) @@
    ("w_6" :> [career |-> 200, study |-> 120, love |-> 50, wealth |-> 100, social |-> 180]) @@
    ("w_7" :> [career |-> 100, study |-> 80, love |-> 20, wealth |-> 50, social |-> -50]) @@
    ("w_8" :> [career |-> 180, study |-> 100, love |-> 80, wealth |-> 80, social |-> 50]) @@
    ("w_9" :> [career |-> 50, study |-> 50, love |-> 0, wealth |-> 0, social |-> -80]) @@
    ("w_10" :> [overall |-> -100, career |-> -200, study |-> -120, love |-> -50, wealth |-> -80, social |-> -150]) @@
    ("w_page" :> [career |-> 120, study |-> 120, love |-> 50, wealth |-> 50, social |-> 80]) @@
    ("w_knight" :> [career |-> 180, study |-> 50, love |-> 80, wealth |-> 80, social |-> 50]) @@
    ("w_queen" :> [career |-> 150, study |-> 50, love |-> 100, wealth |-> 100, social |-> 150]) @@
    ("w_king" :> [career |-> 200, study |-> 50, love |-> 80, wealth |-> 150, social |-> 120]) @@
    ("c_ace" :> [career |-> 50, study |-> 50, love |-> 200, wealth |-> 50, social |-> 150]) @@
    ("c_2" :> [career |-> 50, study |-> 0, love |-> 200, wealth |-> 50, social |-> 180]) @@
    ("c_3" :> [career |-> 50, study |-> 0, love |-> 120, wealth |-> 50, social |-> 200]) @@
    ("c_4" :> [overall |-> -50, career |-> -50, study |-> -50, love |-> -80, wealth |-> 0, social |-> -120]) @@
    ("c_5" :> [overall |-> -100, career |-> -80, study |-> -80, love |-> -180, wealth |-> -50, social |-> -150]) @@
    ("c_6" :> [career |-> 0, study |-> 50, love |-> 150, wealth |-> 50, social |-> 180]) @@
    ("c_7" :> [career |-> -50, study |-> -120, love |-> -50, wealth |-> -50, social |-> 0]) @@
    ("c_8" :> [career |-> -100, study |-> 0, love |-> -150, wealth |-> -50, social |-> -120]) @@
    ("c_9" :> [overall |-> 150, career |-> 50, study |-> 0, love |-> 120, wealth |-> 150, social |-> 150]) @@
    ("c_10" :> [overall |-> 180, career |-> 50, study |-> 0, love |-> 200, wealth |-> 120, social |-> 180]) @@
    ("c_page" :> [career |-> 50, study |-> 100, love |-> 150, wealth |-> 50, social |-> 100]) @@
    ("c_knight" :> [career |-> 50, study |-> 50, love |-> 180, wealth |-> 50, social |-> 100]) @@
    ("c_queen" :> [career |-> 50, study |-> 50, love |-> 180, wealth |-> 50, social |-> 150]) @@
    ("c_king" :> [career |-> 100, study |-> 50, love |-> 150, wealth |-> 50, social |-> 150]) @@
    ("s_ace" :> [career |-> 120, study |-> 200, love |-> 0, wealth |-> 50, social |-> 20]) @@
    ("s_2" :> [career |-> -50, study |-> 120, love |-> 0, wealth |-> 0, social |-> -50]) @@
    ("s_3" :> [overall |-> -150, career |-> -80, study |-> -50, love |-> -200, wealth |-> -50, social |-> -150]) @@
    ("s_4" :> [overall |-> -50, career |-> -120, study |-> 50, love |-> -50, wealth |-> 0, social |-> -200]) @@
    ("s_5" :> [overall |-> -150, career |-> -150, study |-> -50, love |-> -150, wealth |-> -100, social |-> -200]) @@
    ("s_6" :> [career |-> 50, study |-> 100, love |-> 50, wealth |-> 50, social |-> 50]) @@
    ("s_7" :> [career |-> -80, study |-> 50, love |-> -100, wealth |-> -50, social |-> -120]) @@
    ("s_8" :> [overall |-> -100, career |-> -150, study |-> -120, love |-> -80, wealth |-> -80, social |-> -100]) @@
    ("s_9" :> [overall |-> -150, career |-> -120, study |-> -100, love |-> -120, wealth |-> -50, social |-> -150]) @@
    ("s_10" :> [overall |-> -200, career |-> -200, study |-> -150, love |-> -180, wealth |-> -150, social |-> -150]) @@
    ("s_page" :> [career |-> 50, study |-> 180, love |-> 0, wealth |-> 20, social |-> 50]) @@
    ("s_knight" :> [career |-> 150, study |-> 150, love |-> -50, wealth |-> 50, social |-> -80]) @@
    ("s_queen" :> [career |-> 120, study |-> 150, love |-> 50, wealth |-> 80, social |-> 50]) @@
    ("s_king" :> [career |-> 180, study |-> 180, love |-> 50, wealth |-> 100, social |-> 100]) @@
    ("p_ace" :> [career |-> 150, study |-> 50, love |-> 50, wealth |-> 200, social |-> 50]) @@
    ("p_2" :> [career |-> 50, study |-> 0, love |-> 50, wealth |-> 100, social |-> 80]) @@
    ("p_3" :> [career |-> 180, study |-> 150, love |-> 50, wealth |-> 120, social |-> 150]) @@
    ("p_4" :> [career |-> 80, study |-> 0, love |-> 0, wealth |-> 180, social |-> -80]) @@
    ("p_5" :> [overall |-> -150, career |-> -120, study |-> -50, love |-> -100, wealth |-> -200, social |-> -180]) @@
    ("p_6" :> [career |-> 100, study |-> 50, love |-> 80, wealth |-> 150, social |-> 150]) @@
    ("p_7" :> [career |-> 50, study |-> 50, love |-> 20, wealth |-> 100, social |-> 0]) @@
    ("p_8" :> [career |-> 180, study |-> 180, love |-> 20, wealth |-> 150, social |-> 0]) @@
    ("p_9" :> [overall |-> 150, career |-> 100, study |-> 80, love |-> 80, wealth |-> 200, social |-> 50]) @@
    ("p_10" :> [overall |-> 180, career |-> 120, study |-> 50, love |-> 150, wealth |-> 200, social |-> 150]) @@
    ("p_page" :> [career |-> 100, study |-> 150, love |-> 50, wealth |-> 120, social |-> 50]) @@
    ("p_knight" :> [career |-> 150, study |-> 80, love |-> 20, wealth |-> 180, social |-> 0]) @@
    ("p_queen" :> [career |-> 120, study |-> 50, love |-> 100, wealth |-> 200, social |-> 100]) @@
    ("p_king" :> [career |-> 180, study |-> 50, love |-> 80, wealth |-> 200, social |-> 120])

EngineInit ==
    [BASE_SCORE |-> BASE_SCORE, MIN_SCORE |-> MIN_SCORE, MAX_SCORE |-> MAX_SCORE,
     BAZI_SOFT_CAP |-> BAZI_SOFT_CAP,
     TAROT_MULTIPLIER_MINOR |-> TAROT_MULTIPLIER_MINOR,
     TAROT_MULTIPLIER_MAJOR |-> TAROT_MULTIPLIER_MAJOR,
     FIERCE_GODS |-> FIERCE_GODS, AUSPICIOUS_GODS |-> AUSPICIOUS_GODS,
     TAROT_OFFSETS |-> TAROT_OFFSETS]

(***************************************************************************)
(* SpecialPatternService                                                   *)
(***************************************************************************)
GOD_TYPES ==
    ("zheng_yin" :> "Resource") @@ ("pian_yin" :> "Resource") @@
    ("bi_jian" :> "Peer") @@ ("jie_cai" :> "Peer") @@
    ("shi_shen" :> "Output") @@ ("shang_guan" :> "Output") @@
    ("zheng_cai" :> "Wealth") @@ ("pian_cai" :> "Wealth") @@
    ("zheng_guan" :> "Power") @@ ("qi_sha" :> "Power")

PatternServiceInit == [GOD_TYPES |-> GOD_TYPES]

get_god_type(god) ==
    IF god \in DOMAIN pattern_service.GOD_TYPES
    THEN pattern_service.GOD_TYPES[god]
    ELSE "Unknown"

DomainScores(career, wealth, love, study, social) ==
    [career |-> career, wealth |-> wealth, love |-> love,
     study |-> study, social |-> social]

\* the first rule, in source order, whose condition holds, decides
\* lines 22-51: the rules, given the two types looked up in lines 20-21
PatternRules(stem_god, branch_god, s_type, b_type) ==
    LET scores == DomainScores(0, 0, 0, 0, 0)
    IN  IF (stem_god = "shang_guan" /\ branch_god = "zheng_guan")
           \/ (stem_god = "zheng_guan" /\ branch_god = "shang_guan")
        THEN DomainScores(-20, -10, -15, -10, -15)
        ELSE IF (s_type = "Resource" /\ b_type = "Output")
                \/ (s_type = "Output" /\ b_type = "Resource")
        THEN DomainScores(-10, -10, -5, 5, -10)
        ELSE IF (s_type = "Wealth" /\ branch_god = "qi_sha")
                \/ (stem_god = "qi_sha" /\ b_type = "Wealth")
        THEN DomainScores(-5, -15, -10, -10, -5)
        ELSE IF (s_type = "Peer" /\ b_type = "Wealth")
                \/ (s_type = "Wealth" /\ b_type = "Peer")
        THEN DomainScores(-5, -15, -10, 0, 5)
        ELSE IF (s_type = "Output" /\ branch_god = "qi_sha")
                \/ (stem_god = "qi_sha" /\ b_type = "Output")
        THEN DomainScores(20, 10, -5, 10, 15)
        ELSE IF (s_type = "Power" /\ b_type = "Resource")
                \/ (s_type = "Resource" /\ b_type = "Power")
        THEN DomainScores(20, 5, 10, 20, 10)
        ELSE IF (s_type = "Output" /\ b_type = "Wealth")
                \/ (s_type = "Wealth" /\ b_type = "Output")
        THEN DomainScores(10, 20, 10, -5, 10)
        ELSE IF (s_type = "Wealth" /\ b_type = "Power")
                \/ (s_type = "Power" /\ b_type = "Wealth")
        THEN DomainScores(15, 10, 10, 0, 10)
        ELSE IF (s_type = "Resource" /\ b_type = "Peer")
                \/ (s_type = "Peer" /\ b_type = "Resource")
        THEN DomainScores(5, 5, 5, 15, 15)
        ELSE IF (s_type = "Power" /\ b_type = "Peer")
                \/ (s_type = "Peer" /\ b_type = "Power")
        THEN DomainScores(15, 10, 5, 5, -5)
        ELSE IF s_type = b_type /\ s_type = "Output"
        THEN DomainScores(10, 15, 10, 5, 15)
        ELSE IF s_type = b_type /\ s_type = "Wealth"
        THEN DomainScores(5, 20, 15, -10, 5)
        ELSE IF s_type = b_type /\ s_type = "Resource"
        THEN DomainScores(-5, -5, -5, 20, -5)
        ELSE IF s_type = b_type /\ s_type = "Peer"
        THEN DomainScores(0, -15, -10, 0, 20)
        ELSE IF s_type = b_type /\ stem_god = "qi_sha"
        THEN DomainScores(10, -5, -5, -5, -5)
        ELSE scores

\* a variant of calculate_pattern_score whose rules see only the two types
calculate_pattern_score_TypesOnly(stem_god, branch_god) ==
    PatternRules(get_god_type(stem_god), get_god_type(branch_god),
                 get_god_type(stem_god), get_god_type(branch_god))

calculate_pattern_score(stem_god, branch_god) ==
    PatternRules(stem_god, branch_god,
                 get_god_type(stem_god), get_god_type(branch_god))

(***************************************************************************)
(* FortuneScoringEngine: the scoring functions                            *)
(***************************************************************************)
DOMAINS == <<"career", "wealth", "love", "study", "social">>

HIGH_POS == 1000
MID_POS == 500
LOW_NEG == -500
HIGH_NEG == -1000

_get_element_by_god(god) ==
    CASE god \in {"bi_jian", "jie_cai"} -> "Same"
      [] god \in {"shi_shen", "shang_guan"} -> "Output"
      [] god \in {"zheng_cai", "pian_cai"} -> "Wealth"
      [] god \in {"zheng_guan", "qi_sha"} -> "Power"
      [] god \in {"zheng_yin", "pian_yin"} -> "Resource"
      [] OTHER -> ""

_check_is_favorable(god, strength) ==
    LET god_type == get_god_type(god)
    IN  IF strength = "Strong" THEN god_type \in {"Output", "Wealth", "Power"}
        ELSE IF strength = "Weak" THEN god_type \in {"Resource", "Peer"}
        ELSE god # "qi_sha"

\* lines 117-125: the body-strength / energy-phase modifier
EnergyPhaseModifier(body_strength, energy_phase) ==
    IF body_strength = "Weak"
    THEN IF energy_phase \in {"guan_dai", "lin_guan"} THEN 800
         ELSE IF energy_phase \in {"chang_sheng", "di_wang"} THEN 400
         ELSE IF energy_phase \in {"si", "jue", "bing"} THEN -400
         ELSE 0
    ELSE IF body_strength = "Strong"
    THEN IF energy_phase = "chang_sheng" THEN 400
         ELSE IF energy_phase = "di_wang" THEN -800
         ELSE 0
    ELSE IF energy_phase \in {"guan_dai", "lin_guan"} THEN 400
         ELSE 0

\* lines 127-134: clash_penalty, the negative branch-relation contribution
ClashPenalty(branch_relation) ==
    IF branch_relation \in {"combine", "3-combine"} THEN 0
    ELSE IF branch_relation = "clash" THEN -700
    ELSE IF branch_relation \in {"harm", "punish"} THEN -400
    ELSE 0

\* lines 127-134: what the branch relation adds to modifier
BranchRelationModifier(branch_relation) ==
    IF branch_relation \in {"combine", "3-combine"} THEN 700
    ELSE ClashPenalty(branch_relation)

\* a variant of NoblemanMod that gives the minor bonus to a score of 0
NoblemanMod_ZeroCounts(nobleman_score) ==
    IF nobleman_score >= 15 THEN 800
    ELSE IF nobleman_score >= 0 THEN 400
    ELSE 0

\* line 136
NoblemanMod(nobleman_score) ==
    IF nobleman_score >= 15 THEN 800
    ELSE IF nobleman_score > 0 THEN 400
    ELSE 0

\* a variant of NoblemanModifier that leaves the penalty in place
NoblemanModifier_NoAddBack(branch_relation, nobleman_score) ==
    LET nobleman_mod == NoblemanMod(nobleman_score)
    IN  IF nobleman_mod > 0 THEN nobleman_mod ELSE 0

\* lines 136-139: the bonus, and the penalty added back when a bonus applies
NoblemanModifier(branch_relation, nobleman_score) ==
    LET nobleman_mod == NoblemanMod(nobleman_score)
        clash_penalty == ClashPenalty(branch_relation)
    IN  IF nobleman_mod > 0
        THEN nobleman_mod + (IF clash_penalty < 0 THEN -clash_penalty ELSE 0)
        ELSE 0

_calc_overall_score(body_strength, energy_phase, branch_relation, nobleman_score, stem_god, branch_god) ==
    LET stem_favorable == _check_is_favorable(stem_god, body_strength)
        branch_favorable == _check_is_favorable(branch_god, body_strength)
        modifier ==
            EnergyPhaseModifier(body_strength, energy_phase)
            + BranchRelationModifier(branch_relation)
            + NoblemanModifier(branch_relation, nobleman_score)
            + (IF stem_favorable THEN 500 ELSE -500)
            + (IF branch_favorable THEN 500 ELSE -500)
            + (IF stem_god \in engine.FIERCE_GODS THEN -300 ELSE 0)
    IN  engine.BASE_SCORE + modifier

\* lines 163-204: <<relevant, base_score>> of the domain's rule table
VisibilityBase(domain, stem_god, branch_god, gender) ==
    LET god_type == get_god_type(stem_god)
        is_fierce == stem_god \in engine.FIERCE_GODS
        none == <<FALSE, 0>>
    IN  CASE domain = "career" ->
               IF god_type = "Power"
               THEN <<TRUE, IF ~is_fierce THEN HIGH_POS ELSE MID_POS>>
               ELSE IF god_type = "Wealth" THEN <<TRUE, MID_POS>>
               ELSE IF god_type = "Resource" THEN <<TRUE, MID_POS>>
               ELSE IF god_type = "Output"
               THEN IF branch_god = "qi_sha" THEN <<TRUE, HIGH_POS>>
                    ELSE IF branch_god = "zheng_guan" THEN <<TRUE, HIGH_NEG>>
                    ELSE <<TRUE, LOW_NEG>>
               ELSE IF god_type = "Peer" THEN <<TRUE, LOW_NEG>>
               ELSE none
          [] domain = "wealth" ->
               IF god_type = "Wealth" THEN <<TRUE, HIGH_POS>>
               ELSE IF god_type = "Output" THEN <<TRUE, MID_POS>>
               ELSE IF god_type = "Peer" THEN <<TRUE, HIGH_NEG>>
               ELSE IF god_type = "Resource" THEN <<TRUE, LOW_NEG>>
               ELSE none
          [] domain = "love" ->
               IF gender = "Male"
               THEN IF god_type = "Wealth" THEN <<TRUE, HIGH_POS>>
                    ELSE IF god_type = "Output" THEN <<TRUE, MID_POS>>
                    ELSE IF god_type = "Peer" THEN <<TRUE, HIGH_NEG>>
                    ELSE IF god_type = "Power" THEN <<TRUE, MID_POS>>
                    ELSE none
               ELSE IF god_type = "Power"
                    THEN <<TRUE, IF ~is_fierce THEN HIGH_POS ELSE MID_POS>>
                    ELSE IF god_type = "Wealth" THEN <<TRUE, MID_POS>>
                    ELSE IF god_type = "Peer" THEN <<TRUE, HIGH_NEG>>
                    ELSE IF god_type = "Output"
                    THEN IF branch_god = "qi_sha" THEN <<TRUE, MID_POS>>
                         ELSE <<TRUE, HIGH_NEG>>
                    ELSE none
          [] domain = "study" ->
               IF god_type \in {"Resource", "Output"} THEN <<TRUE, HIGH_POS>>
               ELSE IF god_type = "Wealth" THEN <<TRUE, HIGH_NEG>>
               ELSE none
          [] domain = "social" ->
               IF god_type = "Peer" THEN <<TRUE, HIGH_POS>>
               ELSE IF god_type = "Output" THEN <<TRUE, MID_POS>>
               ELSE IF stem_god = "qi_sha" THEN <<TRUE, MID_POS>>
               ELSE IF stem_god = "shang_guan" /\ branch_god = "zheng_guan"
               THEN <<TRUE, HIGH_NEG>>
               ELSE none
          [] OTHER -> none

_get_stem_visibility_score(domain, stem_god, branch_god, gender) ==
    LET vb == VisibilityBase(domain, stem_god, branch_god, gender)
        relevant == vb[1]
        base_score == vb[2]
        stem_el == _get_element_by_god(stem_god)
        branch_el == _get_element_by_god(branch_god)
    IN  IF relevant
        THEN IF base_score > 0 /\ stem_el # "" /\ stem_el = branch_el
             THEN (base_score * 3) \div 2       \* score *= 1.5
             ELSE base_score
        ELSE 0

\* a variant of _calc_domain_modifier that scores social by the love rule
_calc_domain_modifier_GenderedSocial(domain, stem_god, branch_god, gender) ==
    LET vis_score == _get_stem_visibility_score(
                         IF domain = "social" THEN "love" ELSE domain,
                         stem_god, branch_god, gender)
        pattern_scores == calculate_pattern_score(stem_god, branch_god)
        pat_score == IF domain \in DOMAIN pattern_scores
                     THEN 100 * pattern_scores[domain] ELSE 0
        is_double_fierce == stem_god \in engine.FIERCE_GODS
                            /\ branch_god \in engine.FIERCE_GODS
        is_double_auspicious == stem_god \in engine.AUSPICIOUS_GODS
                                /\ branch_god \in engine.AUSPICIOUS_GODS
    IN  vis_score + pat_score
        + (IF is_double_fierce THEN -500
           ELSE IF is_double_auspicious THEN 500 ELSE 0)

_calc_domain_modifier(domain, stem_god, branch_god, gender) ==
    LET vis_score == _get_stem_visibility_score(domain, stem_god, branch_god, gender)
        pattern_scores == calculate_pattern_score(stem_god, branch_god)
        pat_score == IF domain \in DOMAIN pattern_scores
                     THEN 100 * pattern_scores[domain] ELSE 0
        is_double_fierce == stem_god \in engine.FIERCE_GODS
                            /\ branch_god \in engine.FIERCE_GODS
        is_double_auspicious == stem_god \in engine.AUSPICIOUS_GODS
                                /\ branch_god \in engine.AUSPICIOUS_GODS
    IN  vis_score + pat_score
        + (IF is_double_fierce THEN -500
           ELSE IF is_double_auspicious THEN 500 ELSE 0)

(***************************************************************************)
(* Card identifiers.  str(card_id).split('_')[0] with isdigit() and int()  *)
(* is modelled by the table of the identifiers whose first part is all     *)
(* digits; every other identifier has a first part that is not a number.   *)
(***************************************************************************)
DigitPrefix ==
    ("0_fool" :> 0) @@ ("1_magician" :> 1) @@ ("2_priestess" :> 2) @@
    ("3_empress" :> 3) @@ ("4_emperor" :> 4) @@ ("5_hierophant" :> 5) @@
    ("6_lovers" :> 6) @@ ("7_chariot" :> 7) @@ ("8_strength" :> 8) @@
    ("9_hermit" :> 9) @@ ("10_wheel" :> 10) @@ ("11_justice" :> 11) @@
    ("12_hanged_man" :> 12) @@ ("13_death" :> 13) @@ ("14_temperance" :> 14) @@
    ("15_devil" :> 15) @@ ("16_tower" :> 16) @@ ("17_star" :> 17) @@
    ("18_moon" :> 18) @@ ("19_sun" :> 19) @@ ("20_judgement" :> 20) @@
    ("21_world" :> 21) @@ ("22_extra" :> 22) @@ ("7" :> 7)

_is_major_arcana(card_id) ==
    IF card_id = "" THEN FALSE
    ELSE IF card_id \in DOMAIN DigitPrefix   \* parts[0].isdigit()
         THEN DigitPrefix[card_id] < 22
         ELSE FALSE

\* a variant of _calc_phase_3_tarot that gives every card the major multiplier
_calc_phase_3_tarot_MajorOnly(card_id, is_upright, domain) ==
    LET has_card == card_id \in DOMAIN engine.TAROT_OFFSETS
        card_data == IF has_card THEN engine.TAROT_OFFSETS[card_id] ELSE <<>>
        offset == IF has_card /\ domain \in DOMAIN card_data THEN card_data[domain]
                  ELSE IF has_card /\ "overall" \in DOMAIN card_data
                       THEN card_data["overall"]
                       ELSE 0
        modifier == offset * engine.TAROT_MULTIPLIER_MAJOR
    IN  IF ~is_upright THEN modifier \div 2 ELSE modifier

\* a variant of _calc_phase_3_tarot whose default offset is 1.0
_calc_phase_3_tarot_DefaultOne(card_id, is_upright, domain) ==
    LET has_card == card_id \in DOMAIN engine.TAROT_OFFSETS
        card_data == IF has_card THEN engine.TAROT_OFFSETS[card_id] ELSE <<>>
        offset == IF has_card /\ domain \in DOMAIN card_data THEN card_data[domain]
                  ELSE IF has_card /\ "overall" \in DOMAIN card_data
                       THEN card_data["overall"]
                       ELSE 100
        multiplier == IF _is_major_arcana(card_id)
                      THEN engine.TAROT_MULTIPLIER_MAJOR
                      ELSE engine.TAROT_MULTIPLIER_MINOR
        modifier == offset * multiplier
    IN  IF ~is_upright THEN modifier \div 2 ELSE modifier

_calc_phase_3_tarot(card_id, is_upright, domain) ==
    LET has_card == card_id \in DOMAIN engine.TAROT_OFFSETS
        card_data == IF has_card THEN engine.TAROT_OFFSETS[card_id] ELSE <<>>
        offset == IF has_card /\ domain \in DOMAIN card_data THEN card_data[domain]
                  ELSE IF has_card /\ "overall" \in DOMAIN card_data
                       THEN card_data["overall"]
                       ELSE 0
        multiplier == IF _is_major_arcana(card_id)
                      THEN engine.TAROT_MULTIPLIER_MAJOR
                      ELSE engine.TAROT_MULTIPLIER_MINOR
        modifier == offset * multiplier
    IN  IF ~is_upright THEN modifier \div 2 ELSE modifier

Min(a, b) == IF a < b THEN a ELSE b
Max(a, b) == IF a > b THEN a ELSE b

\* int(x) of a float held in hundredths (Python truncates toward zero)
PyInt(x) == IF x >= 0 THEN x \div 100 ELSE -((-x) \div 100)

\* a variant of ClampScore that applies the ceiling only
ClampScore_NoFloor(x) == Min(engine.MAX_SCORE, x)

\* lines 251 and 265: max(MIN_SCORE, min(MAX_SCORE, x))
ClampScore(x) == Max(engine.MIN_SCORE, Min(engine.MAX_SCORE, x))

\* a variant of CappedPlusTarot that caps the sum instead of the BaZi part
CappedPlusTarot_CapAfter(bazi, tarot) == Min(engine.BAZI_SOFT_CAP, bazi + tarot)

\* lines 248-251 and 260-264: the BaZi part is capped, then the tarot
\* modifier is added
CappedPlusTarot(bazi, tarot) == Min(engine.BAZI_SOFT_CAP, bazi) + tarot

\* a variant of LowPowerMode that counts 45.0 itself as low power
LowPowerMode_AtMost45(final_overall) == final_overall <= 4500

\* line 253: final_overall < 45.0, on the float before int()
LowPowerMode(final_overall) == final_overall < 4500

\* lines 247-253: the overall part of calculate
CalcOverall(a) ==
    LET overall_base == _calc_overall_score(a.body_strength, a.energy_phase,
                            a.branch_relation, a.nobleman_score,
                            a.stem_god, a.branch_god)
        tarot_overall == _calc_phase_3_tarot(a.tarot_card_id, a.tarot_is_upright,
                                             "overall")
        final_overall == ClampScore(CappedPlusTarot(overall_base, tarot_overall))
    IN  [overall_base |-> overall_base, tarot_overall |-> tarot_overall,
         final_overall |-> final_overall,
         bazi_overall |-> overall_base - engine.BASE_SCORE,
         low_power_mode |-> LowPowerMode(final_overall)]

\* lines 256-265: one iteration of the loop over the domains
CalcDomain(a, overall_base, domain) ==
    LET domain_base == overall_base
        domain_delta == _calc_domain_modifier(domain, a.stem_god, a.branch_god,
                                              a.gender)
        raw_bazi_domain == domain_base + domain_delta
        tarot_domain == _calc_phase_3_tarot(a.tarot_card_id, a.tarot_is_upright,
                                            domain)
        score == CappedPlusTarot(raw_bazi_domain, tarot_domain)
    IN  [domain_delta |-> domain_delta, tarot_domain |-> tarot_domain,
         final_score |-> PyInt(ClampScore(score))]

DomainSet == {DOMAINS[i] : i \in 1..Len(DOMAINS)}

\* lines 267-273: the FortuneResult, from the locals o (overall part) and
\* d (what the loop stored for each domain)
BuildResult(a, o, d) ==
    [overall_score |-> PyInt(o.final_overall),
     body_strength |-> a.body_strength,
     low_power_mode |-> o.low_power_mode,
     domain_scores |-> [dom \in DOMAIN d |-> d[dom].final_score],
     bazi_modifiers |->
         [k \in DOMAIN d \cup {"overall"} |->
             IF k = "overall" THEN o.bazi_overall ELSE d[k].domain_delta],
     tarot_modifiers |->
         [k \in DOMAIN d \cup {"overall"} |->
             IF k = "overall" THEN o.tarot_overall ELSE d[k].tarot_domain],
     domain_tarot_contribution |-> [dom \in DOMAIN d |-> d[dom].tarot_domain],
     is_major_arcana |-> _is_major_arcana(a.tarot_card_id)]

calculate(a) ==
    LET o == CalcOverall(a)
        d == [dom \in DomainSet |-> CalcDomain(a, o.overall_base, dom)]
    IN  BuildResult(a, o, d)

(***************************************************************************)
(* BaZiService: the class-level tables                                     *)
(***************************************************************************)
HEAVENLY_STEMS ==
    ("tg_jia" :> [element |-> "Wood", yin_yang |-> "yang"]) @@
    ("tg_yi" :> [element |-> "Wood", yin_yang |-> "yin"]) @@
    ("tg_bing" :> [element |-> "Fire", yin_yang |-> "yang"]) @@
    ("tg_ding" :> [element |-> "Fire", yin_yang |-> "yin"]) @@
    ("tg_wu" :> [element |-> "Earth", yin_yang |-> "yang"]) @@
    ("tg_ji" :> [element |-> "Earth", yin_yang |-> "yin"]) @@
    ("tg_geng" :> [element |-> "Metal", yin_yang |-> "yang"]) @@
    ("tg_xin" :> [element |-> "Metal", yin_yang |-> "yin"]) @@
    ("tg_ren" :> [element |-> "Water", yin_yang |-> "yang"]) @@
    ("tg_gui" :> [element |-> "Water", yin_yang |-> "yin"])

EARTHLY_BRANCHES ==
    ("dz_zi" :> [element |-> "Water", main_hidden_stem |-> "tg_gui",
        hidden_stems |-> <<"tg_gui">>, is_storage |-> FALSE]) @@
    ("dz_chou" :> [element |-> "Earth", main_hidden_stem |-> "tg_ji",
        hidden_stems |-> <<"tg_ji", "tg_gui", "tg_xin">>, is_storage |-> TRUE]) @@
    ("dz_yin" :> [element |-> "Wood", main_hidden_stem |-> "tg_jia",
        hidden_stems |-> <<"tg_jia", "tg_bing", "tg_wu">>, is_storage |-> FALSE]) @@
    ("dz_mao" :> [element |-> "Wood", main_hidden_stem |-> "tg_yi",
        hidden_stems |-> <<"tg_yi">>, is_storage |-> FALSE]) @@
    ("dz_chen" :> [element |-> "Earth", main_hidden_stem |-> "tg_wu",
        hidden_stems |-> <<"tg_wu", "tg_yi", "tg_gui">>, is_storage |-> TRUE]) @@
    ("dz_si" :> [element |-> "Fire", main_hidden_stem |-> "tg_bing",
        hidden_stems |-> <<"tg_bing", "tg_geng", "tg_wu">>, is_storage |-> FALSE]) @@
    ("dz_wu" :> [element |-> "Fire", main_hidden_stem |-> "tg_ding",
        hidden_stems |-> <<"tg_ding", "tg_ji">>, is_storage |-> FALSE]) @@
    ("dz_wei" :> [element |-> "Earth", main_hidden_stem |-> "tg_ji",
        hidden_stems |-> <<"tg_ji", "tg_ding", "tg_yi">>, is_storage |-> TRUE]) @@
    ("dz_shen" :> [element |-> "Metal", main_hidden_stem |-> "tg_geng",
        hidden_stems |-> <<"tg_geng", "tg_ren", "tg_wu">>, is_storage |-> FALSE]) @@
    ("dz_you" :> [element |-> "Metal", main_hidden_stem |-> "tg_xin",
        hidden_stems |-> <<"tg_xin">>, is_storage |-> FALSE]) @@
    ("dz_xu" :> [element |-> "Earth", main_hidden_stem |-> "tg_wu",
        hidden_stems |-> <<"tg_wu", "tg_xin", "tg_ding">>, is_storage |-> TRUE]) @@
    ("dz_hai" :> [element |-> "Water", main_hidden_stem |-> "tg_ren",
        hidden_stems |-> <<"tg_ren", "tg_jia">>, is_storage |-> FALSE])

ELEMENT_RELATIONS ==
    ("Wood" :> [generates |-> "Fire", overcomes |-> "Earth", generated_by |-> "Water"]) @@
    ("Fire" :> [generates |-> "Earth", overcomes |-> "Metal", generated_by |-> "Wood"]) @@
    ("Earth" :> [generates |-> "Metal", overcomes |-> "Water", generated_by |-> "Fire"]) @@
    ("Metal" :> [generates |-> "Water", overcomes |-> "Wood", generated_by |-> "Earth"]) @@
    ("Water" :> [generates |-> "Wood", overcomes |-> "Fire", generated_by |-> "Metal"])

\* a variant of COMBINATIONS whose Earth set has three branches
COMBINATIONS_EarthOfThree ==
    <<[element |-> "Wood", combos |-> <<{"dz_yin", "dz_mao", "dz_chen"}, {"dz_mao", "dz_wei", "dz_hai"}>>],
      [element |-> "Fire", combos |-> <<{"dz_si", "dz_wu", "dz_wei"}, {"dz_yin", "dz_wu", "dz_xu"}>>],
      [element |-> "Metal", combos |-> <<{"dz_shen", "dz_you", "dz_xu"}, {"dz_chou", "dz_si", "dz_you"}>>],
      [element |-> "Water", combos |-> <<{"dz_zi", "dz_chou", "dz_hai"}, {"dz_zi", "dz_chen", "dz_shen"}>>],
      [element |-> "Earth", combos |-> <<{"dz_chou", "dz_chen", "dz_xu"}>>]>>

COMBINATIONS ==
    <<[element |-> "Wood", combos |-> <<{"dz_yin", "dz_mao", "dz_chen"}, {"dz_mao", "dz_wei", "dz_hai"}>>],
      [element |-> "Fire", combos |-> <<{"dz_si", "dz_wu", "dz_wei"}, {"dz_yin", "dz_wu", "dz_xu"}>>],
      [element |-> "Metal", combos |-> <<{"dz_shen", "dz_you", "dz_xu"}, {"dz_chou", "dz_si", "dz_you"}>>],
      [element |-> "Water", combos |-> <<{"dz_zi", "dz_chou", "dz_hai"}, {"dz_zi", "dz_chen", "dz_shen"}>>],
      [element |-> "Earth", combos |-> <<{"dz_chou", "dz_chen", "dz_wei", "dz_xu"}>>]>>

SIX_CLASHES ==
    ("dz_zi" :> "dz_wu") @@
    ("dz_wu" :> "dz_zi") @@
    ("dz_chou" :> "dz_wei") @@
    ("dz_wei" :> "dz_chou") @@
    ("dz_yin" :> "dz_shen") @@
    ("dz_shen" :> "dz_yin") @@
    ("dz_mao" :> "dz_you") @@
    ("dz_you" :> "dz_mao") @@
    ("dz_chen" :> "dz_xu") @@
    ("dz_xu" :> "dz_chen") @@
    ("dz_si" :> "dz_hai") @@
    ("dz_hai" :> "dz_si")

SIX_COMBINES ==
    ("dz_zi" :> "dz_chou") @@
    ("dz_chou" :> "dz_zi") @@
    ("dz_yin" :> "dz_hai") @@
    ("dz_hai" :> "dz_yin") @@
    ("dz_mao" :> "dz_xu") @@
    ("dz_xu" :> "dz_mao") @@
    ("dz_chen" :> "dz_you") @@
    ("dz_you" :> "dz_chen") @@
    ("dz_si" :> "dz_shen") @@
    ("dz_shen" :> "dz_si") @@
    ("dz_wu" :> "dz_wei") @@
    ("dz_wei" :> "dz_wu")

SIX_HARMS ==
    ("dz_zi" :> "dz_wei") @@
    ("dz_wei" :> "dz_zi") @@
    ("dz_chou" :> "dz_wu") @@
    ("dz_wu" :> "dz_chou") @@
    ("dz_yin" :> "dz_si") @@
    ("dz_si" :> "dz_yin") @@
    ("dz_mao" :> "dz_chen") @@
    ("dz_chen" :> "dz_mao") @@
    ("dz_shen" :> "dz_hai") @@
    ("dz_hai" :> "dz_shen") @@
    ("dz_you" :> "dz_xu") @@
    ("dz_xu" :> "dz_you")

TRIANGLE_COMBINES ==
    ("dz_zi" :> <<"dz_shen", "dz_chen">>) @@
    ("dz_shen" :> <<"dz_zi", "dz_chen">>) @@
    ("dz_chen" :> <<"dz_zi", "dz_shen">>) @@
    ("dz_hai" :> <<"dz_mao", "dz_wei">>) @@
    ("dz_mao" :> <<"dz_hai", "dz_wei">>) @@
    ("dz_wei" :> <<"dz_hai", "dz_mao">>) @@
    ("dz_yin" :> <<"dz_wu", "dz_xu">>) @@
    ("dz_wu" :> <<"dz_yin", "dz_xu">>) @@
    ("dz_xu" :> <<"dz_yin", "dz_wu">>) @@
    ("dz_si" :> <<"dz_you", "dz_chou">>) @@
    ("dz_you" :> <<"dz_si", "dz_chou">>) @@
    ("dz_chou" :> <<"dz_si", "dz_you">>)

\* a variant of PUNISHMENTS without the entry of mao
PUNISHMENTS_OneWay ==
    ("dz_zi" :> <<"dz_mao">>) @@
    ("dz_yin" :> <<"dz_si", "dz_shen">>) @@
    ("dz_si" :> <<"dz_yin", "dz_shen">>) @@
    ("dz_shen" :> <<"dz_yin", "dz_si">>) @@
    ("dz_chou" :> <<"dz_xu", "dz_wei">>) @@
    ("dz_xu" :> <<"dz_chou", "dz_wei">>) @@
    ("dz_wei" :> <<"dz_chou", "dz_xu">>)

PUNISHMENTS ==
    ("dz_zi" :> <<"dz_mao">>) @@
    ("dz_mao" :> <<"dz_zi">>) @@
    ("dz_yin" :> <<"dz_si", "dz_shen">>) @@
    ("dz_si" :> <<"dz_yin", "dz_shen">>) @@
    ("dz_shen" :> <<"dz_yin", "dz_si">>) @@
    ("dz_chou" :> <<"dz_xu", "dz_wei">>) @@
    ("dz_xu" :> <<"dz_chou", "dz_wei">>) @@
    ("dz_wei" :> <<"dz_chou", "dz_xu">>)

TWELVE_PHASES_MAP ==
    ("tg_jia" :> (
        ("dz_hai" :> "chang_sheng") @@
        ("dz_zi" :> "mu_yu") @@
        ("dz_chou" :> "guan_dai") @@
        ("dz_yin" :> "lin_guan") @@
        ("dz_mao" :> "di_wang") @@
        ("dz_chen" :> "shuai") @@
        ("dz_si" :> "bing") @@
        ("dz_wu" :> "si") @@
        ("dz_wei" :> "mu") @@
        ("dz_shen" :> "jue") @@
        ("dz_you" :> "tai") @@
        ("dz_xu" :> "yang"))) @@
    ("tg_yi" :> (
        ("dz_wu" :> "chang_sheng") @@
        ("dz_si" :> "mu_yu") @@
        ("dz_chen" :> "guan_dai") @@
        ("dz_mao" :> "lin_guan") @@
        ("dz_yin" :> "di_wang") @@
        ("dz_chou" :> "shuai") @@
        ("dz_zi" :> "bing") @@
        ("dz_hai" :> "si") @@
        ("dz_xu" :> "mu") @@
        ("dz_you" :> "jue") @@
        ("dz_shen" :> "tai") @@
        ("dz_wei" :> "yang"))) @@
    ("tg_bing" :> (
        ("dz_yin" :> "chang_sheng") @@
        ("dz_mao" :> "mu_yu") @@
        ("dz_chen" :> "guan_dai") @@
        ("dz_si" :> "lin_guan") @@
        ("dz_wu" :> "di_wang") @@
        ("dz_wei" :> "shuai") @@
        ("dz_shen" :> "bing") @@
        ("dz_you" :> "si") @@
        ("dz_xu" :> "mu") @@
        ("dz_hai" :> "jue") @@
        ("dz_zi" :> "tai") @@
        ("dz_chou" :> "yang"))) @@
    ("tg_wu" :> (
        ("dz_yin" :> "chang_sheng") @@
        ("dz_mao" :> "mu_yu") @@
        ("dz_chen" :> "guan_dai") @@
        ("dz_si" :> "lin_guan") @@
        ("dz_wu" :> "di_wang") @@
        ("dz_wei" :> "shuai") @@
        ("dz_shen" :> "bing") @@
        ("dz_you" :> "si") @@
        ("dz_xu" :> "mu") @@
        ("dz_hai" :> "jue") @@
        ("dz_zi" :> "tai") @@
        ("dz_chou" :> "yang"))) @@
    ("tg_ding" :> (
        ("dz_you" :> "chang_sheng") @@
        ("dz_shen" :> "mu_yu") @@
        ("dz_wei" :> "guan_dai") @@
        ("dz_wu" :> "lin_guan") @@
        ("dz_si" :> "di_wang") @@
        ("dz_chen" :> "shuai") @@
        ("dz_mao" :> "bing") @@
        ("dz_yin" :> "si") @@
        ("dz_chou" :> "mu") @@
        ("dz_zi" :> "jue") @@
        ("dz_hai" :> "tai") @@
        ("dz_xu" :> "yang"))) @@
    ("tg_ji" :> (
        ("dz_you" :> "chang_sheng") @@
        ("dz_shen" :> "mu_yu") @@
        ("dz_wei" :> "guan_dai") @@
        ("dz_wu" :> "lin_guan") @@
        ("dz_si" :> "di_wang") @@
        ("dz_chen" :> "shuai") @@
        ("dz_mao" :> "bing") @@
        ("dz_yin" :> "si") @@
        ("dz_chou" :> "mu") @@
        ("dz_zi" :> "jue") @@
        ("dz_hai" :> "tai") @@
        ("dz_xu" :> "yang"))) @@
    ("tg_geng" :> (
        ("dz_si" :> "chang_sheng") @@
        ("dz_wu" :> "mu_yu") @@
        ("dz_wei" :> "guan_dai") @@
        ("dz_shen" :> "lin_guan") @@
        ("dz_you" :> "di_wang") @@
        ("dz_xu" :> "shuai") @@
        ("dz_hai" :> "bing") @@
        ("dz_zi" :> "si") @@
        ("dz_chou" :> "mu") @@
        ("dz_yin" :> "jue") @@
        ("dz_mao" :> "tai") @@
        ("dz_chen" :> "yang"))) @@
    ("tg_xin" :> (
        ("dz_zi" :> "chang_sheng") @@
        ("dz_hai" :> "mu_yu") @@
        ("dz_xu" :> "guan_dai") @@
        ("dz_you" :> "lin_guan") @@
        ("dz_shen" :> "di_wang") @@
        ("dz_wei" :> "shuai") @@
        ("dz_wu" :> "bing") @@
        ("dz_si" :> "si") @@
        ("dz_chen" :> "mu") @@
        ("dz_mao" :> "jue") @@
        ("dz_yin" :> "tai") @@
        ("dz_chou" :> "yang"))) @@
    ("tg_ren" :> (
        ("dz_shen" :> "chang_sheng") @@
        ("dz_you" :> "mu_yu") @@
        ("dz_xu" :> "guan_dai") @@
        ("dz_hai" :> "lin_guan") @@
        ("dz_zi" :> "di_wang") @@
        ("dz_chou" :> "shuai") @@
        ("dz_yin" :> "bing") @@
        ("dz_mao" :> "si") @@
        ("dz_chen" :> "mu") @@
        ("dz_si" :> "jue") @@
        ("dz_wu" :> "tai") @@
        ("dz_wei" :> "yang"))) @@
    ("tg_gui" :> (
        ("dz_mao" :> "chang_sheng") @@
        ("dz_yin" :> "mu_yu") @@
        ("dz_chou" :> "guan_dai") @@
        ("dz_zi" :> "lin_guan") @@
        ("dz_hai" :> "di_wang") @@
        ("dz_xu" :> "shuai") @@
        ("dz_you" :> "bing") @@
        ("dz_shen" :> "si") @@
        ("dz_wei" :> "mu") @@
        ("dz_wu" :> "jue") @@
        ("dz_si" :> "tai") @@
        ("dz_chen" :> "yang")))

BaZiServiceInit ==
    [HEAVENLY_STEMS |-> HEAVENLY_STEMS, EARTHLY_BRANCHES |-> EARTHLY_BRANCHES,
     ELEMENT_RELATIONS |-> ELEMENT_RELATIONS, COMBINATIONS |-> COMBINATIONS,
     TWELVE_PHASES_MAP |-> TWELVE_PHASES_MAP,
     SIX_CLASHES |-> SIX_CLASHES, SIX_COMBINES |-> SIX_COMBINES,
     TRIANGLE_COMBINES |-> TRIANGLE_COMBINES, SIX_HARMS |-> SIX_HARMS,
     PUNISHMENTS |-> PUNISHMENTS]

(***************************************************************************)
(* BaZiService: the helpers                                                *)
(***************************************************************************)
\* dict.get(key) == value, for a key that may be missing
GetEquals(table, key, value) == key \in DOMAIN table /\ table[key] = value

\* value in dict.get(key, [])
InGetList(table, key, value) ==
    key \in DOMAIN table /\ \E i \in 1..Len(table[key]) : table[key][i] = value

_get_element_relation(me, other) ==
    IF me = other THEN "same"
    ELSE IF bazi_service.ELEMENT_RELATIONS[me].generates = other THEN "generates"
    ELSE IF bazi_service.ELEMENT_RELATIONS[me].overcomes = other THEN "overcomes"
    ELSE IF bazi_service.ELEMENT_RELATIONS[me].generated_by = other THEN "generated_by"
    ELSE "overcome_by"

\* a variant of _get_branch_relationship that tests harm before punishment
_get_branch_relationship_HarmFirst(branch1, branch2) ==
    IF GetEquals(bazi_service.SIX_CLASHES, branch1, branch2) THEN "clash"
    ELSE IF GetEquals(bazi_service.SIX_COMBINES, branch1, branch2) THEN "combine"
    ELSE IF InGetList(bazi_service.TRIANGLE_COMBINES, branch1, branch2) THEN "3-combine"
    ELSE IF GetEquals(bazi_service.SIX_HARMS, branch1, branch2) THEN "harm"
    ELSE IF branch1 = branch2 /\ branch1 \in {"dz_chen", "dz_wu", "dz_you", "dz_hai"}
         THEN "punish"
    ELSE IF InGetList(bazi_service.PUNISHMENTS, branch1, branch2) THEN "punish"
    ELSE "none"

_get_branch_relationship(branch1, branch2) ==
    IF GetEquals(bazi_service.SIX_CLASHES, branch1, branch2) THEN "clash"
    ELSE IF GetEquals(bazi_service.SIX_COMBINES, branch1, branch2) THEN "combine"
    ELSE IF InGetList(bazi_service.TRIANGLE_COMBINES, branch1, branch2) THEN "3-combine"
    ELSE IF branch1 = branch2 /\ branch1 \in {"dz_chen", "dz_wu", "dz_you", "dz_hai"}
         THEN "punish"
    ELSE IF InGetList(bazi_service.PUNISHMENTS, branch1, branch2) THEN "punish"
    ELSE IF GetEquals(bazi_service.SIX_HARMS, branch1, branch2) THEN "harm"
    ELSE "none"

\* a variant of _get_ten_god_relation whose last test reads the day master's
\* own row of ELEMENT_RELATIONS
_get_ten_god_relation_OwnRow(day_master_char, other_stem_char) ==
    LET day_master == bazi_service.HEAVENLY_STEMS[day_master_char]
        other_stem == bazi_service.HEAVENLY_STEMS[other_stem_char]
        me_el == day_master.element
        other_el == other_stem.element
        same_yin_yang == day_master.yin_yang = other_stem.yin_yang
    IN  IF me_el = other_el
        THEN IF same_yin_yang THEN "bi_jian" ELSE "jie_cai"
        ELSE IF bazi_service.ELEMENT_RELATIONS[me_el].generates = other_el
        THEN IF same_yin_yang THEN "shi_shen" ELSE "shang_guan"
        ELSE IF bazi_service.ELEMENT_RELATIONS[other_el].generates = me_el
        THEN IF same_yin_yang THEN "pian_yin" ELSE "zheng_yin"
        ELSE IF bazi_service.ELEMENT_RELATIONS[me_el].overcomes = other_el
        THEN IF same_yin_yang THEN "pian_cai" ELSE "zheng_cai"
        ELSE IF bazi_service.ELEMENT_RELATIONS[me_el].overcomes = me_el
        THEN IF same_yin_yang THEN "qi_sha" ELSE "zheng_guan"
        ELSE "unknown_relation"

_get_ten_god_relation(day_master_char, other_stem_char) ==
    LET day_master == bazi_service.HEAVENLY_STEMS[day_master_char]
        other_stem == bazi_service.HEAVENLY_STEMS[other_stem_char]
        me_el == day_master.element
        other_el == other_stem.element
        same_yin_yang == day_master.yin_yang = other_stem.yin_yang
    IN  IF me_el = other_el
        THEN IF same_yin_yang THEN "bi_jian" ELSE "jie_cai"
        ELSE IF bazi_service.ELEMENT_RELATIONS[me_el].generates = other_el
        THEN IF same_yin_yang THEN "shi_shen" ELSE "shang_guan"
        ELSE IF bazi_service.ELEMENT_RELATIONS[other_el].generates = me_el
        THEN IF same_yin_yang THEN "pian_yin" ELSE "zheng_yin"
        ELSE IF bazi_service.ELEMENT_RELATIONS[me_el].overcomes = other_el
        THEN IF same_yin_yang THEN "pian_cai" ELSE "zheng_cai"
        ELSE IF bazi_service.ELEMENT_RELATIONS[other_el].overcomes = me_el
        THEN IF same_yin_yang THEN "qi_sha" ELSE "zheng_guan"
        ELSE "unknown_relation"

\* the (element, combo) pairs in the iteration order of lines 288-289
ComboList ==
    LET C == bazi_service.COMBINATIONS
        RECURSIVE Flat(_)
        Flat(i) ==
            IF i > Len(C) THEN <<>>
            ELSE [j \in 1..Len(C[i].combos) |->
                     [element |-> C[i].element, combo |-> C[i].combos[j]]]
                 \o Flat(i + 1)
    IN  Flat(1)

\* None is NoValue; the loop of lines 288-298 from the i-th pair on
RECURSIVE BureauFrom(_, _, _)
BureauFrom(dm_element, branches, i) ==
    IF i > Len(ComboList) THEN NoValue
    ELSE IF ComboList[i].combo \subseteq branches
    THEN LET relation == _get_element_relation(dm_element, ComboList[i].element)
         IN  IF relation = "same" \/ relation = "generated_by" THEN "Strong"
             ELSE IF relation \in {"overcomes", "generates", "overcome_by"}
             THEN "Weak"
             ELSE BureauFrom(dm_element, branches, i + 1)
    ELSE BureauFrom(dm_element, branches, i + 1)

_check_bureau_override(dm_element, branches) == BureauFrom(dm_element, branches, 1)

\* lines 309-317: the base score; 0 means the early return of line 317
SeasonBase(dm_el, month_branch) ==
    LET mb_info == bazi_service.EARTHLY_BRANCHES[month_branch]
        relation == _get_element_relation(dm_el, mb_info.element)
    IN  IF relation = "same" THEN 60
        ELSE IF relation = "generated_by" THEN 45
        ELSE IF mb_info.element = "Earth" THEN 15
        ELSE 0

\* a variant of SeasonMultiplier that looks for a combine before a clash
SeasonMultiplier_CombineFirst(pillars) ==
    LET month_branch == pillars.month.branch
        mb_info == bazi_service.EARTHLY_BRANCHES[month_branch]
        rel_year == _get_branch_relationship(month_branch, pillars.year.branch)
        rel_day == _get_branch_relationship(month_branch, pillars.day.branch)
        is_clashed == rel_year = "clash" \/ rel_day = "clash"
        is_combined == rel_year \in {"combine", "3-combine"}
                       \/ rel_day \in {"combine", "3-combine"}
    IN  IF is_combined THEN 85
        ELSE IF is_clashed
        THEN IF mb_info.element = "Earth" THEN 100 ELSE 70
        ELSE 100

\* lines 320-346: the multiplier, in hundredths
SeasonMultiplier(pillars) ==
    LET month_branch == pillars.month.branch
        mb_info == bazi_service.EARTHLY_BRANCHES[month_branch]
        rel_year == _get_branch_relationship(month_branch, pillars.year.branch)
        rel_day == _get_branch_relationship(month_branch, pillars.day.branch)
        is_clashed == rel_year = "clash" \/ rel_day = "clash"
        is_combined == rel_year \in {"combine", "3-combine"}
                       \/ rel_day \in {"combine", "3-combine"}
    IN  IF is_clashed
        THEN IF mb_info.element = "Earth" THEN 100 ELSE 70
        ELSE IF is_combined THEN 85
        ELSE 100

\* the score in hundredths
_score_season_dynamic(dm_el, pillars) ==
    LET base_score == SeasonBase(dm_el, pillars.month.branch)
    IN  IF base_score = 0 THEN 0
        ELSE base_score * SeasonMultiplier(pillars)

\* the score in hundredths
_score_root(dm_el, branch, weight) ==
    LET branch_info == bazi_service.EARTHLY_BRANCHES[branch]
        main_el == branch_info.element
    IN  IF _get_element_relation(dm_el, main_el) = "same" THEN weight * 100
        ELSE IF _get_element_relation(dm_el, main_el) = "generated_by"
                \/ branch_info.is_storage
        THEN weight * 60
        ELSE IF "hidden_stems" \in DOMAIN branch_info
                /\ \E i \in 1..Len(branch_info.hidden_stems) :
                      _get_element_relation(dm_el,
                          bazi_service.HEAVENLY_STEMS[branch_info.hidden_stems[i]].element)
                      = "same"
        THEN weight * 30
        ELSE 0

\* lines 393-409: the coefficient in hundredths; the third arm of the
\* if / elif / elif chain is taken only when the second is not
StemSupportCoeff(stem_el, sitting_branch) ==
    LET sit_b_info == bazi_service.EARTHLY_BRANCHES[sitting_branch]
        sit_b_el == sit_b_info.element
        stem_sit_rel == _get_element_relation(stem_el, sit_b_el)
    IN  IF stem_sit_rel \in {"same", "generated_by"} THEN 100
        ELSE IF "hidden_stems" \in DOMAIN sit_b_info
        THEN IF \E i \in 1..Len(sit_b_info.hidden_stems) :
                    bazi_service.HEAVENLY_STEMS[sit_b_info.hidden_stems[i]].element
                    = stem_el
             THEN 70
             ELSE 60
        ELSE IF stem_sit_rel = "overcome_by" THEN 30
        ELSE 60

\* the score in hundredths
_score_stem_support(dm_el, stem, sitting_branch, base_weight) ==
    LET stem_el == bazi_service.HEAVENLY_STEMS[stem].element
        relation == _get_element_relation(dm_el, stem_el)
    IN  IF relation \notin {"same", "generated_by"} THEN 0
        ELSE base_weight * StemSupportCoeff(stem_el, sitting_branch)

\* lines 155-167: the k-th term of the weighted score, in hundredths
ScoreTerm(day_master, pillars, k) ==
    LET dm_element == bazi_service.HEAVENLY_STEMS[day_master].element
    IN  CASE k = 1 -> _score_season_dynamic(dm_element, pillars)
          [] k = 2 -> _score_root(dm_element, pillars.day.branch, 15)
          [] k = 3 -> _score_root(dm_element, pillars.year.branch, 10)
          [] k = 4 -> _score_stem_support(dm_element, pillars.month.stem,
                                          pillars.month.branch, 10)
          [] k = 5 -> _score_stem_support(dm_element, pillars.year.stem,
                                          pillars.year.branch, 5)

\* lines 150-167: the weighted score in hundredths
WeightedScore(day_master, pillars) ==
    ScoreTerm(day_master, pillars, 1) + ScoreTerm(day_master, pillars, 2)
    + ScoreTerm(day_master, pillars, 3) + ScoreTerm(day_master, pillars, 4)
    + ScoreTerm(day_master, pillars, 5)

\* a variant of StrengthBand whose Strong threshold is strict
StrengthBand_StrictStrong(score) ==
    IF score > 5000 THEN "Strong"
    ELSE IF score >= 3000 THEN "Balanced"
    ELSE "Weak"

\* lines 172-177
StrengthBand(score) ==
    IF score >= 5000 THEN "Strong"
    ELSE IF score >= 3000 THEN "Balanced"
    ELSE "Weak"

\* a variant of calculate_body_strength that goes by the weighted score alone
calculate_body_strength_ScoreOnly(day_master, pillars) ==
    StrengthBand(WeightedScore(day_master, pillars))

calculate_body_strength(day_master, pillars) ==
    LET dm_element == bazi_service.HEAVENLY_STEMS[day_master].element
        branches == {pillars.year.branch, pillars.month.branch, pillars.day.branch}
        override_result == _check_bureau_override(dm_element, branches)
    IN  IF override_result # NoValue THEN override_result
        ELSE StrengthBand(WeightedScore(day_master, pillars))

(***************************************************************************)
(* Inputs of calculate                                                     *)
(***************************************************************************)
BodyStrengths == {"Strong", "Balanced", "Weak"}
EnergyPhases ==
    {"chang_sheng", "mu_yu", "guan_dai", "lin_guan", "di_wang", "shuai",
     "bing", "si", "mu", "jue", "tai", "yang"}
BranchRelations == {"clash", "combine", "3-combine", "harm", "punish", "none"}
TenGods == DOMAIN GOD_TYPES
Genders == {"Male", "Female"}

\* one energy phase of each class that lines 117-125 tell apart, and one
\* that no rule names
CalcPhases == {"guan_dai", "chang_sheng", "di_wang", "bing", "shuai"}
\* one nobleman score of each class that line 136 tells apart
CalcNobleman == {0, 10, 15}

\* the cards calculate is called with: the first NumCards of this list
\* ("", "7" and "22_extra" are not keys of TAROT_OFFSETS)
CardOrder == <<"19_sun", "w_4", "", "7", "16_tower", "w_ace", "22_extra", "9_hermit">>
NumCards == 4
CalcCards == {CardOrder[i] : i \in 1..Min(NumCards, Len(CardOrder))}
Stems == DOMAIN HEAVENLY_STEMS
Branches == DOMAIN EARTHLY_BRANCHES
_TG_LIST == <<"tg_jia", "tg_yi", "tg_bing", "tg_ding", "tg_wu",
              "tg_ji", "tg_geng", "tg_xin", "tg_ren", "tg_gui">>
_DZ_LIST == <<"dz_zi", "dz_chou", "dz_yin", "dz_mao", "dz_chen", "dz_si",
              "dz_wu", "dz_wei", "dz_shen", "dz_you", "dz_xu", "dz_hai">>

\* the sixty stem-branch pairs of the sexagenary cycle: equal parity
Pillars ==
    {[stem |-> _TG_LIST[ij[1]], branch |-> _DZ_LIST[ij[2]]] :
        ij \in {x \in (1..10) \X (1..12) : x[1] % 2 = x[2] % 2}}

\* a chart: year, month and day pillar
BodyInputs == [year : Pillars, month : Pillars, day : Pillars]

TablesInit ==
    /\ engine = EngineInit
    /\ pattern_service = PatternServiceInit
    /\ bazi_service = BaZiServiceInit

tables == <<engine, pattern_service, bazi_service>>

\* a specification with one sequential caller leaves these aside
NoHistory == history = <<>>
NoThreads == threads = <<>>

\* a specification without the request handler: empty cache and tables
NoRequest ==
    /\ _fortune_cache = <<>>
    /\ daily_fortune_details = <<>>
    /\ user_daily_draws = <<>>
    /\ locals = <<>>


CalcArgs(bs, ph, rel, nob, sg, bg, card, up, g) ==
    [body_strength |-> bs, energy_phase |-> ph, branch_relation |-> rel,
     nobleman_score |-> nob, stem_god |-> sg, branch_god |-> bg,
     tarot_card_id |-> card, tarot_is_upright |-> up, gender |-> g]

\* every context, god pair, card and orientation for gender 'Male'; gender
\* is read only by the love rule of _get_stem_visibility_score, so the other
\* gender is paired with every god pair, card and orientation in a smaller
\* set of contexts
CalcInputs ==
    [body_strength : BodyStrengths, energy_phase : CalcPhases,
     branch_relation : BranchRelations, nobleman_score : CalcNobleman,
     stem_god : TenGods, branch_god : TenGods,
     tarot_card_id : CalcCards, tarot_is_upright : BOOLEAN, gender : {"Male"}]
    \cup
    [body_strength : BodyStrengths, energy_phase : {"shuai"},
     branch_relation : {"clash", "none"}, nobleman_score : {0},
     stem_god : TenGods, branch_god : TenGods,
     tarot_card_id : CalcCards, tarot_is_upright : BOOLEAN,
     gender : Genders \ {"Male"}]

(***************************************************************************)
(* SpecCalc: one call of FortuneScoringEngine.calculate                    *)
(***************************************************************************)
InitCalc ==
    /\ TablesInit
    /\ NoRequest
    /\ NoHistory /\ NoThreads
    /\ pc = "call"
    /\ args \in CalcInputs
    /\ ret = NoValue

Calculate ==
    /\ pc = "call"
    /\ ret' = calculate(args)
    /\ pc' = "done"
    /\ UNCHANGED <<web, tables, args, history, threads>>

NextCalc == Calculate

SpecCalc == InitCalc /\ [][NextCalc]_vars

\* the score of a key before clamping and truncation, rebuilt from the
\* modifiers the result reports (hundredths)
RawOverall(r) == 6500 + r.bazi_modifiers["overall"] + r.tarot_modifiers["overall"]
RawDomain(r, d) ==
    6500 + r.bazi_modifiers["overall"] + r.bazi_modifiers[d] + r.tarot_modifiers[d]

\* C1: every returned overall_score and domain score is an integer in
\* 30..100, and domain_scores has exactly the five domain keys.
C1_ScoreBounds ==
    pc = "done" =>
        /\ ret.overall_score \in 30..100
        /\ DOMAIN ret.domain_scores = {"career", "wealth", "love", "study", "social"}
        /\ \A d \in DOMAIN ret.domain_scores : ret.domain_scores[d] \in 30..100

\* C1 witness: a domain whose score before clamping is below 30 is returned
\* as 30, in a result whose other scores lie strictly inside the range.
C1_Witness ==
    /\ pc = "done"
    /\ \E d \in DOMAIN ret.domain_scores :
          RawDomain(ret, d) < 3000 /\ ret.domain_scores[d] = 30
    /\ \E d \in DOMAIN ret.domain_scores :
          ret.domain_scores[d] > 30 /\ ret.domain_scores[d] < 100

\* C2: low_power_mode is true exactly when the returned integer
\* overall_score is below 45.
C2_LowPowerIffBelow45 ==
    pc = "done" => (ret.low_power_mode <=> ret.overall_score < 45)

\* C2 witness: a fractional score between 44 and 45 (a reversed card), which
\* is returned as 44 with low_power_mode set.
C2_Witness ==
    /\ pc = "done"
    /\ ~args.tarot_is_upright
    /\ RawOverall(ret) > 4400 /\ RawOverall(ret) < 4500
    /\ RawOverall(ret) % 100 # 0
    /\ ret.overall_score = 44
    /\ ret.low_power_mode

\* the stated formula: clamp(min(90, bazi) + tarot, 30, 100), then int()
C3_Formula(bazi, tarot) ==
    LET capped == IF bazi > 9000 THEN 9000 ELSE bazi
        sum == capped + tarot
        clamped == IF sum < 3000 THEN 3000 ELSE IF sum > 10000 THEN 10000 ELSE sum
    IN  clamped \div 100

\* C3: the BaZi part is capped at 90 before the tarot modifier is added, for
\* the overall score and for each domain; with a tarot modifier of 0 or
\* less no score exceeds 90.
C3_SoftCapBeforeTarot ==
    pc = "done" =>
        LET base == 6500 + ret.bazi_modifiers["overall"]
        IN  /\ ret.overall_score = C3_Formula(base, ret.tarot_modifiers["overall"])
            /\ ret.tarot_modifiers["overall"] <= 0 => ret.overall_score <= 90
            /\ \A d \in DOMAIN ret.domain_scores :
                  /\ ret.domain_scores[d]
                        = C3_Formula(base + ret.bazi_modifiers[d],
                                     ret.tarot_modifiers[d])
                  /\ ret.tarot_modifiers[d] <= 0 => ret.domain_scores[d] <= 90

\* C3 witness: the overall base and a domain's base are above 90, the tarot
\* modifiers are 0, and both scores are exactly 90.
C3_Witness ==
    /\ pc = "done"
    /\ 6500 + ret.bazi_modifiers["overall"] > 9000
    /\ ret.tarot_modifiers["overall"] = 0
    /\ ret.overall_score = 90
    /\ \E d \in DOMAIN ret.domain_scores :
          /\ ret.bazi_modifiers[d] > 0
          /\ ret.tarot_modifiers[d] = 0
          /\ ret.domain_scores[d] = 90

C6_Scenario ==
    CalcArgs("Strong", "di_wang", "clash", 0, "zheng_guan", "shi_shen",
             "19_sun", TRUE, "Male")

\* C6: the concrete scenario gives overall base 60, tarot overall modifier
\* 12.0, overall_score 72 and low_power_mode false.
C6_ConcreteScenario ==
    (pc = "done" /\ args = C6_Scenario) =>
        /\ 6500 + ret.bazi_modifiers["overall"] = 6000
        /\ ret.tarot_modifiers["overall"] = 1200
        /\ ret.overall_score = 72
        /\ ret.low_power_mode = FALSE

\* C6 witness: the scenario has been calculated.
C6_Witness == pc = "done" /\ args = C6_Scenario /\ ret.overall_score = 72

(***************************************************************************)
(* SpecTenGod: one call of BaZiService._get_ten_god_relation               *)
(***************************************************************************)
TenGodInputs == [day_master : Stems, other_stem : Stems]

InitTenGod ==
    /\ TablesInit
    /\ NoRequest
    /\ NoHistory /\ NoThreads
    /\ pc = "call"
    /\ args \in TenGodInputs
    /\ ret = NoValue

CallTenGod ==
    /\ pc = "call"
    /\ ret' = _get_ten_god_relation(args.day_master, args.other_stem)
    /\ pc' = "done"
    /\ UNCHANGED <<web, tables, args, history, threads>>

NextTenGod == CallTenGod

SpecTenGod == InitTenGod /\ [][NextTenGod]_vars

\* the five-element relation of two stems and whether their polarities match
StemClass(a) ==
    <<_get_element_relation(HEAVENLY_STEMS[a.day_master].element,
                            HEAVENLY_STEMS[a.other_stem].element),
      HEAVENLY_STEMS[a.day_master].yin_yang = HEAVENLY_STEMS[a.other_stem].yin_yang>>

\* C7: for each of the 100 ordered stem pairs the result is one of the ten
\* Ten-God labels, never the unknown relation, and every pair with the same
\* five-element relation and the same polarity match has the same label.
C7_TenGodTotal ==
    pc = "done" =>
        /\ ret \in {"bi_jian", "jie_cai", "shi_shen", "shang_guan", "pian_yin",
                    "zheng_yin", "pian_cai", "zheng_cai", "qi_sha", "zheng_guan"}
        /\ ret # "unknown_relation"
        /\ \A b \in TenGodInputs :
              StemClass(b) = StemClass(args)
                  => _get_ten_god_relation(b.day_master, b.other_stem) = ret

\* C7 witness: a pair decided by the last test of the function, the other
\* stem's element overcoming the day master's with unlike polarity.
C7_Witness ==
    /\ pc = "done"
    /\ args = [day_master |-> "tg_jia", other_stem |-> "tg_xin"]
    /\ ret = "zheng_guan"

(***************************************************************************)
(* SpecBranch: one call of BaZiService._get_branch_relationship            *)
(***************************************************************************)
BranchInputs == [branch1 : Branches, branch2 : Branches]

InitBranch ==
    /\ TablesInit
    /\ NoRequest
    /\ NoHistory /\ NoThreads
    /\ pc = "call"
    /\ args \in BranchInputs
    /\ ret = NoValue

CallBranchRelationship ==
    /\ pc = "call"
    /\ ret' = _get_branch_relationship(args.branch1, args.branch2)
    /\ pc' = "done"
    /\ UNCHANGED <<web, tables, args, history, threads>>

NextBranch == CallBranchRelationship

SpecBranch == InitBranch /\ [][NextBranch]_vars

\* membership of an ordered pair in each of the five relation tables
InClashTable(a, b) == SIX_CLASHES[a] = b
InCombineTable(a, b) == SIX_COMBINES[a] = b
InTriangleTable(a, b) == \E i \in 1..Len(TRIANGLE_COMBINES[a]) : TRIANGLE_COMBINES[a][i] = b
InPunishTable(a, b) ==
    \/ a = b /\ a \in {"dz_chen", "dz_wu", "dz_you", "dz_hai"}
    \/ a \in DOMAIN PUNISHMENTS /\ \E i \in 1..Len(PUNISHMENTS[a]) : PUNISHMENTS[a][i] = b
InHarmTable(a, b) == SIX_HARMS[a] = b

\* C8: the result is the first relation that matches in the order clash,
\* combine, triple-combine, punishment (self-punishment included), harm, and
\* 'none' when nothing matches; yin/si gives punish, yin/shen gives clash and
\* si/shen gives combine, each of the three pairs being in both tables named.
C8_BranchPriority ==
    pc = "done" =>
        LET a == args.branch1
            b == args.branch2
            c1 == InClashTable(a, b)
            c2 == InCombineTable(a, b)
            c3 == InTriangleTable(a, b)
            c4 == InPunishTable(a, b)
            c5 == InHarmTable(a, b)
        IN  /\ ret = "clash" <=> c1
            /\ ret = "combine" <=> ~c1 /\ c2
            /\ ret = "3-combine" <=> ~c1 /\ ~c2 /\ c3
            /\ ret = "punish" <=> ~c1 /\ ~c2 /\ ~c3 /\ c4
            /\ ret = "harm" <=> ~c1 /\ ~c2 /\ ~c3 /\ ~c4 /\ c5
            /\ ret = "none" <=> ~c1 /\ ~c2 /\ ~c3 /\ ~c4 /\ ~c5
            /\ (a = "dz_yin" /\ b = "dz_si") => (c4 /\ c5 /\ ret = "punish")
            /\ (a = "dz_yin" /\ b = "dz_shen") => (c1 /\ c4 /\ ret = "clash")
            /\ (a = "dz_si" /\ b = "dz_shen") => (c2 /\ c4 /\ ret = "combine")

\* C8 witness: yin/si is in both the punishment and the harm table and the
\* call has returned punish.
C8_Witness ==
    /\ pc = "done"
    /\ args = [branch1 |-> "dz_yin", branch2 |-> "dz_si"]
    /\ InPunishTable("dz_yin", "dz_si") /\ InHarmTable("dz_yin", "dz_si")
    /\ ret = "punish"

(***************************************************************************)
(* SpecSeason: one call of BaZiService._score_season_dynamic               *)
(***************************************************************************)
Elements == DOMAIN ELEMENT_RELATIONS

\* the function reads the three branches only; each pillar carries a stem of
\* its branch's parity
PillarOfBranch(b) ==
    [stem |-> IF b \in {_DZ_LIST[i] : i \in {1, 3, 5, 7, 9, 11}}
              THEN "tg_jia" ELSE "tg_yi",
     branch |-> b]

SeasonInputs ==
    {[dm_el |-> e,
      pillars |-> [year |-> PillarOfBranch(y), month |-> PillarOfBranch(m),
                   day |-> PillarOfBranch(d)]] :
        e \in Elements, y \in Branches, m \in Branches, d \in Branches}

InitSeason ==
    /\ TablesInit
    /\ NoRequest
    /\ NoHistory /\ NoThreads
    /\ pc = "call"
    /\ args \in SeasonInputs
    /\ ret = NoValue

CallScoreSeason ==
    /\ pc = "call"
    /\ ret' = _score_season_dynamic(args.dm_el, args.pillars)
    /\ pc' = "done"
    /\ UNCHANGED <<web, tables, args, history, threads>>

NextSeason == CallScoreSeason

SpecSeason == InitSeason /\ [][NextSeason]_vars

ClashedBy(m, o) == InClashTable(m, o)
CombinedBy(m, o) == InCombineTable(m, o) \/ InTriangleTable(m, o)

\* the stated multiplier, in hundredths
C9_Multiplier(p) ==
    LET m == p.month.branch
        clashed == ClashedBy(m, p.year.branch) \/ ClashedBy(m, p.day.branch)
        combined == CombinedBy(m, p.year.branch) \/ CombinedBy(m, p.day.branch)
        earth == m \in {"dz_chen", "dz_xu", "dz_chou", "dz_wei"}
    IN  IF clashed /\ earth THEN 100
        ELSE IF clashed THEN 70
        ELSE IF combined THEN 85
        ELSE 100

\* C9: with a nonzero base score (60, 45 or 15) the month score is the base
\* times 1.0 for a clashed Earth month branch, 0.7 for a clashed non-Earth
\* one, 0.85 for one that is combined or triple-combined and not clashed,
\* and 1.0 otherwise; a clash by one branch wins over a combine by the other.
C9_SeasonMultiplier ==
    pc = "done" =>
        LET base == SeasonBase(args.dm_el, args.pillars.month.branch)
        IN  /\ base \in {0, 15, 45, 60}
            /\ base # 0 => ret = base * C9_Multiplier(args.pillars)

\* C9 witness: a non-Earth month branch with base 60, clashed by the year
\* branch and combined by the day branch, scored 60 * 0.7.
C9_Witness ==
    /\ pc = "done"
    /\ args.dm_el = "Water"
    /\ args.pillars.month.branch = "dz_zi"
    /\ ClashedBy("dz_zi", args.pillars.year.branch)
    /\ CombinedBy("dz_zi", args.pillars.day.branch)
    /\ ret = 4200

(***************************************************************************)
(* SpecBody: calculate_body_strength as calculate_bazi calls it, with the  *)
(* day pillar's stem as the day master                                     *)
(***************************************************************************)
InitBody ==
    /\ TablesInit
    /\ NoRequest
    /\ NoHistory /\ NoThreads
    /\ pc = "call"
    /\ args \in BodyInputs
    /\ ret = NoValue

CallBodyStrength ==
    /\ pc = "call"
    /\ ret' = calculate_body_strength(args.day.stem, args)
    /\ pc' = "done"
    /\ UNCHANGED <<web, tables, args, history, threads>>

NextBody == CallBodyStrength

SpecBody == InitBody /\ [][NextBody]_vars

\* the three-branch sets and the element of each
ThreeBranchSets ==
    {<<"Wood", {"dz_yin", "dz_mao", "dz_chen"}>>, <<"Wood", {"dz_hai", "dz_mao", "dz_wei"}>>,
     <<"Fire", {"dz_si", "dz_wu", "dz_wei"}>>, <<"Fire", {"dz_yin", "dz_wu", "dz_xu"}>>,
     <<"Metal", {"dz_shen", "dz_you", "dz_xu"}>>, <<"Metal", {"dz_si", "dz_you", "dz_chou"}>>,
     <<"Water", {"dz_hai", "dz_zi", "dz_chou"}>>, <<"Water", {"dz_shen", "dz_zi", "dz_chen"}>>}

ChartBranches(p) == {p.year.branch, p.month.branch, p.day.branch}
Generates(x, y) == ELEMENT_RELATIONS[x].generates = y
Overcomes(x, y) == ELEMENT_RELATIONS[x].overcomes = y

\* C10: whenever the three branches form a complete three-branch set of an
\* element E the result is Weak if E overcomes the day-master element, is
\* overcome by it or is generated by it, and Strong if E equals it or
\* generates it, whatever the stems and the weighted score are.
C10_BureauOverride ==
    pc = "done" =>
        \A s \in ThreeBranchSets :
            s[2] = ChartBranches(args) =>
                LET E == s[1]
                    dm == HEAVENLY_STEMS[args.day.stem].element
                IN  /\ (Overcomes(E, dm) \/ Overcomes(dm, E) \/ Generates(dm, E))
                          => ret = "Weak"
                    /\ (E = dm \/ Generates(E, dm)) => ret = "Strong"

\* C10 witness: the branches form a set whose element the day master
\* generates, the weighted sum alone would give Strong, the result is Weak.
C10_Witness ==
    /\ pc = "done"
    /\ \E s \in ThreeBranchSets :
          s[2] = ChartBranches(args)
          /\ Generates(HEAVENLY_STEMS[args.day.stem].element, s[1])
    /\ StrengthBand(WeightedScore(args.day.stem, args)) = "Strong"
    /\ ret = "Weak"

(***************************************************************************)
(* Callers of the module-level singletons                                  *)
(***************************************************************************)
\* arguments the callers pass to calculate: the first is a day with overall
\* base 60, the second has an unknown card id, the third a reversed card
SampleCalcInputs ==
    {CalcArgs("Strong", "di_wang", "clash", 0, "zheng_guan", "shi_shen",
              "19_sun", TRUE, "Male"),
     CalcArgs("Weak", "chang_sheng", "none", 10, "zheng_yin", "bi_jian",
              "", TRUE, "Female"),
     CalcArgs("Balanced", "shuai", "combine", 15, "qi_sha", "shi_shen",
              "16_tower", FALSE, "Male")}

SamplePatternInputs ==
    {[stem_god |-> "shang_guan", branch_god |-> "zheng_guan"],
     [stem_god |-> "zheng_cai", branch_god |-> "shi_shen"]}

\* two charts: the branches of the first form a Fire set, those of the
\* second form no set
SampleCharts ==
    {[year |-> [stem |-> "tg_jia", branch |-> "dz_yin"],
      month |-> [stem |-> "tg_bing", branch |-> "dz_wu"],
      day |-> [stem |-> "tg_jia", branch |-> "dz_xu"]],
     [year |-> [stem |-> "tg_yi", branch |-> "dz_mao"],
      month |-> [stem |-> "tg_geng", branch |-> "dz_shen"],
      day |-> [stem |-> "tg_ren", branch |-> "dz_zi"]]}

SampleBodyInputs == {[day_master |-> p.day.stem, pillars |-> p] : p \in SampleCharts}

(***************************************************************************)
(* SpecSeq: one caller making up to MaxCalls calls, one after the other    *)
(***************************************************************************)
MaxCalls == 3

InitSeq ==
    /\ TablesInit
    /\ NoRequest
    /\ NoThreads
    /\ pc = "idle" /\ args = NoValue /\ ret = NoValue
    /\ history = <<>>

\* a variant of CallCalculate in which the call stores its overall base in
\* self.BASE_SCORE
CallCalculate_StoresBase ==
    /\ Len(history) < MaxCalls
    /\ \E a \in SampleCalcInputs :
          /\ history' = Append(history, [op |-> "calculate", args |-> a,
                                         ret |-> calculate(a)])
          /\ engine' = [engine EXCEPT !.BASE_SCORE = CalcOverall(a).overall_base]
    /\ UNCHANGED <<web, pattern_service, bazi_service, pc, args, ret, threads>>

CallCalculate ==
    /\ Len(history) < MaxCalls
    /\ \E a \in SampleCalcInputs :
          history' = Append(history, [op |-> "calculate", args |-> a,
                                      ret |-> calculate(a)])
    /\ UNCHANGED <<web, tables, pc, args, ret, threads>>

CallPatternScore ==
    /\ Len(history) < MaxCalls
    /\ \E a \in SamplePatternInputs :
          history' = Append(history,
                            [op |-> "calculate_pattern_score", args |-> a,
                             ret |-> calculate_pattern_score(a.stem_god,
                                                             a.branch_god)])
    /\ UNCHANGED <<web, tables, pc, args, ret, threads>>

CallBodyStrengthSeq ==
    /\ Len(history) < MaxCalls
    /\ \E a \in SampleBodyInputs :
          history' = Append(history,
                            [op |-> "calculate_body_strength", args |-> a,
                             ret |-> calculate_body_strength(a.day_master,
                                                             a.pillars)])
    /\ UNCHANGED <<web, tables, pc, args, ret, threads>>

NextSeq == CallCalculate \/ CallPatternScore \/ CallBodyStrengthSeq

SpecSeq == InitSeq /\ [][NextSeq]_vars

\* C4: any two calls of calculate with the same arguments, whatever their
\* order and whatever calls were made between them, returned results equal
\* in every field.
C4_Deterministic ==
    \A i, j \in 1..Len(history) :
        (history[i].op = "calculate" /\ history[j].op = "calculate")
            => (history[i].args = history[j].args
                    => history[i].ret = history[j].ret)

\* C4 witness: calculate was called twice with the same arguments, with a
\* call of another operation between the two.
C4_Witness ==
    /\ Len(history) = 3
    /\ history[1].op = "calculate" /\ history[3].op = "calculate"
    /\ history[2].op = "calculate_pattern_score"
    /\ history[1].args = history[3].args
    /\ history[1].ret = history[3].ret
    /\ history[1].ret.overall_score = 72

(***************************************************************************)
(* SpecConc: NumThreads request handlers, each making one call; a call is  *)
(* a sequence of steps and the steps of different handlers interleave      *)
(***************************************************************************)
NumThreads == 2

ThreadIds == 1..NumThreads

IdleThread ==
    [op |-> "none", args |-> <<>>, pc |-> "idle", locals |-> <<>>,
     ret |-> <<>>, overlapped |-> FALSE]

InitConc ==
    /\ TablesInit
    /\ NoRequest
    /\ NoHistory
    /\ pc = "idle" /\ args = NoValue /\ ret = NoValue
    /\ threads = [t \in ThreadIds |-> IdleThread]

InFlight(t) == threads[t].pc \notin {"idle", "done"}

\* whether a step of t is taken while another handler is inside a call
Overlaps(t) ==
    threads[t].overlapped \/ \E u \in ThreadIds : u # t /\ InFlight(u)

\* the step of handler t: new position, locals and result
StepTo(t, new_pc, new_locals, new_ret) ==
    threads' = [threads EXCEPT ![t] =
                   [@ EXCEPT !.pc = new_pc, !.locals = new_locals,
                             !.ret = new_ret, !.overlapped = Overlaps(t)]]

Enter(t, op, a, first_pc) ==
    threads' = [threads EXCEPT ![t] =
                   [op |-> op, args |-> a, pc |-> first_pc, locals |-> <<>>,
                    ret |-> <<>>, overlapped |-> Overlaps(t)]]

StartCalculate(t) ==
    /\ threads[t].pc = "idle"
    /\ \E a \in SampleCalcInputs : Enter(t, "calculate", a, "overall")
    /\ UNCHANGED <<web, tables, pc, args, ret, history>>

\* a variant of CalcStepOverall that looks the card up with setdefault
CalcStepOverall_Setdefault(t) ==
    /\ threads[t].pc = "overall"
    /\ StepTo(t, "domain",
              [o |-> CalcOverall(threads[t].args), d |-> <<>>, i |-> 1], <<>>)
    /\ engine' =
          IF threads[t].args.tarot_card_id \in DOMAIN engine.TAROT_OFFSETS
          THEN engine
          ELSE [engine EXCEPT !.TAROT_OFFSETS =
                   (threads[t].args.tarot_card_id :> <<>>) @@ @]
    /\ UNCHANGED <<web, pattern_service, bazi_service, pc, args, ret, history>>

\* lines 244-253
CalcStepOverall(t) ==
    /\ threads[t].pc = "overall"
    /\ StepTo(t, "domain",
              [o |-> CalcOverall(threads[t].args), d |-> <<>>, i |-> 1], <<>>)
    /\ UNCHANGED <<web, tables, pc, args, ret, history>>

\* lines 255-265: one iteration of the loop
CalcStepDomain(t) ==
    /\ threads[t].pc = "domain"
    /\ LET l == threads[t].locals
           domain == DOMAINS[l.i]
           entry == CalcDomain(threads[t].args, l.o.overall_base, domain)
       IN  StepTo(t, IF l.i = Len(DOMAINS) THEN "return" ELSE "domain",
                  [l EXCEPT !.d = (domain :> entry) @@ @, !.i = @ + 1], <<>>)
    /\ UNCHANGED <<web, tables, pc, args, ret, history>>

\* lines 267-273
CalcReturn(t) ==
    /\ threads[t].pc = "return"
    /\ LET l == threads[t].locals
       IN  StepTo(t, "done", l, BuildResult(threads[t].args, l.o, l.d))
    /\ UNCHANGED <<web, tables, pc, args, ret, history>>

StartPatternScore(t) ==
    /\ threads[t].pc = "idle"
    /\ \E a \in SamplePatternInputs :
          Enter(t, "calculate_pattern_score", a, "types")
    /\ UNCHANGED <<web, tables, pc, args, ret, history>>

\* special_pattern_service.py lines 20-22
PatStepTypes(t) ==
    /\ threads[t].pc = "types"
    /\ StepTo(t, "rules",
              [s_type |-> get_god_type(threads[t].args.stem_god),
               b_type |-> get_god_type(threads[t].args.branch_god)], <<>>)
    /\ UNCHANGED <<web, tables, pc, args, ret, history>>

\* special_pattern_service.py lines 24-51
PatStepRules(t) ==
    /\ threads[t].pc = "rules"
    /\ LET l == threads[t].locals
       IN  StepTo(t, "done", l,
                  PatternRules(threads[t].args.stem_god,
                               threads[t].args.branch_god, l.s_type, l.b_type))
    /\ UNCHANGED <<web, tables, pc, args, ret, history>>

StartBodyStrength(t) ==
    /\ threads[t].pc = "idle"
    /\ \E a \in SampleBodyInputs :
          Enter(t, "calculate_body_strength", a, "override")
    /\ UNCHANGED <<web, tables, pc, args, ret, history>>

\* bazi_service.py lines 142-151
BodyStepOverride(t) ==
    /\ threads[t].pc = "override"
    /\ LET a == threads[t].args
           dm_element == bazi_service.HEAVENLY_STEMS[a.day_master].element
           branches == {a.pillars.year.branch, a.pillars.month.branch,
                        a.pillars.day.branch}
           override_result == _check_bureau_override(dm_element, branches)
       IN  IF override_result # NoValue
           THEN StepTo(t, "done", <<>>, override_result)
           ELSE StepTo(t, "score", [score |-> 0, k |-> 1], <<>>)
    /\ UNCHANGED <<web, tables, pc, args, ret, history>>

\* bazi_service.py lines 155-167: one of the five additions to score
BodyStepScore(t) ==
    /\ threads[t].pc = "score"
    /\ LET a == threads[t].args
           l == threads[t].locals
       IN  StepTo(t, IF l.k = 5 THEN "band" ELSE "score",
                  [score |-> l.score + ScoreTerm(a.day_master, a.pillars, l.k),
                   k |-> l.k + 1], <<>>)
    /\ UNCHANGED <<web, tables, pc, args, ret, history>>

\* bazi_service.py lines 172-177
BodyStepBand(t) ==
    /\ threads[t].pc = "band"
    /\ StepTo(t, "done", threads[t].locals, StrengthBand(threads[t].locals.score))
    /\ UNCHANGED <<web, tables, pc, args, ret, history>>

NextConc ==
    \E t \in ThreadIds :
        \/ StartCalculate(t)
        \/ CalcStepOverall(t)
        \/ CalcStepDomain(t)
        \/ CalcReturn(t)
        \/ StartPatternScore(t)
        \/ PatStepTypes(t)
        \/ PatStepRules(t)
        \/ StartBodyStrength(t)
        \/ BodyStepOverride(t)
        \/ BodyStepScore(t)
        \/ BodyStepBand(t)

SpecConc == InitConc /\ [][NextConc]_vars

\* what a call returns when it runs alone
RunAlone(op, a) ==
    CASE op = "calculate" -> calculate(a)
      [] op = "calculate_pattern_score" ->
            calculate_pattern_score(a.stem_god, a.branch_god)
      [] op = "calculate_body_strength" ->
            calculate_body_strength(a.day_master, a.pillars)

\* C5: under every interleaving of concurrent calls of calculate,
\* calculate_pattern_score and calculate_body_strength the static tables of
\* the three singletons are what the constructors and class bodies set, and
\* every call that has returned has returned what it returns when run alone.
C5_NoSharedMutableState ==
    /\ engine = EngineInit
    /\ pattern_service = PatternServiceInit
    /\ bazi_service = BaZiServiceInit
    /\ \A t \in ThreadIds :
          threads[t].pc = "done"
              => threads[t].ret = RunAlone(threads[t].op, threads[t].args)

\* C5 witness: a call of calculate with an unknown card id has returned, its
\* steps were interleaved with another handler's call, and that other call
\* of calculate_body_strength has returned too.
C5_Witness ==
    \E t, u \in ThreadIds :
        /\ t # u
        /\ threads[t].pc = "done" /\ threads[t].op = "calculate"
        /\ threads[t].args.tarot_card_id = ""
        /\ threads[t].overlapped
        /\ threads[u].pc = "done" /\ threads[u].op = "calculate_body_strength"
        /\ threads[u].overlapped
        /\ threads[u].ret = "Weak"

(***************************************************************************)
(* Further properties of calculate_body_strength (SpecBody)                *)
(***************************************************************************)
\* whether the chart's branches trigger the bureau override
HasOverride(p) ==
    _check_bureau_override(HEAVENLY_STEMS[p.day.stem].element, ChartBranches(p))
        # NoValue

\* the total of the five weighted terms, in hundredths, term by term
C11_Total(p) ==
    LET dm_el == HEAVENLY_STEMS[p.day.stem].element
    IN  _score_season_dynamic(dm_el, p)
        + _score_root(dm_el, p.day.branch, 15)
        + _score_root(dm_el, p.year.branch, 10)
        + _score_stem_support(dm_el, p.month.stem, p.month.branch, 10)
        + _score_stem_support(dm_el, p.year.stem, p.year.branch, 5)

\* C11: when no bureau override applies the result is Strong exactly when
\* the total weighted score is at least 50, Balanced exactly when it is at
\* least 30 and below 50, Weak exactly when it is below 30.
C11_Thresholds ==
    (pc = "done" /\ ~HasOverride(args)) =>
        LET total == C11_Total(args)
        IN  /\ ret = "Strong" <=> total >= 5000
            /\ ret = "Balanced" <=> (total >= 3000 /\ total < 5000)
            /\ ret = "Weak" <=> total < 3000

\* C11 witness: a chart without override whose total is exactly 50, classed
\* Strong.
C11_Witness ==
    /\ pc = "done"
    /\ ~HasOverride(args)
    /\ C11_Total(args) = 5000
    /\ ret = "Strong"

(***************************************************************************)
(* Further properties of calculate (SpecCalc)                              *)
(***************************************************************************)
\* the BaZi part alone: min(90, bazi), clamped to [30, 100], then int()
C12_BaziOnly(bazi) ==
    LET capped == IF bazi > 9000 THEN 9000 ELSE bazi
        clamped == IF capped < 3000 THEN 3000
                   ELSE IF capped > 10000 THEN 10000 ELSE capped
    IN  clamped \div 100

Returned(value) == [raised |-> FALSE, value |-> value]

\* bazi_service.py lines 179-185; "wei_zhi" is the default string of the
\* two lookups
get_12_phase(day_master, branch) ==
    IF day_master \notin DOMAIN bazi_service.TWELVE_PHASES_MAP
    THEN "wei_zhi"
    ELSE LET stem_map == bazi_service.TWELVE_PHASES_MAP[day_master]
         IN  IF branch \in DOMAIN stem_map THEN stem_map[branch] ELSE "wei_zhi"

\* the ten labels, the label _get_ten_god_relation falls back to, and a
\* string that is no label at all
LabelGods == TenGods \cup {"unknown_relation", "no_such_god"}
LabelStems == Stems \cup {"tg_none"}
LabelBranches == Branches \cup {"dz_none"}

LabelInputs ==
    {[op |-> "calculate",
      a |-> CalcArgs(bs, "di_wang", "none", 0, sg, bg, "19_sun", TRUE, "Male")] :
        bs \in BodyStrengths, sg \in LabelGods, bg \in LabelGods}
    \cup
    {[op |-> "get_12_phase", day_master |-> s, branch |-> b] :
        s \in LabelStems, b \in LabelBranches}

InitLabels ==
    /\ TablesInit
    /\ NoRequest
    /\ NoHistory /\ NoThreads
    /\ pc = "call"
    /\ args \in LabelInputs
    /\ ret = NoValue

\* fortune_scoring_engine.py lines 242-273: no lookup on the way raises for
\* a missing god label
CallCalculateLabels ==
    /\ pc = "call"
    /\ args.op = "calculate"
    /\ ret' = Returned(calculate(args.a))
    /\ pc' = "done"
    /\ UNCHANGED <<web, tables, args, history, threads>>

CallGet12Phase ==
    /\ pc = "call"
    /\ args.op = "get_12_phase"
    /\ ret' = Returned(get_12_phase(args.day_master, args.branch))
    /\ pc' = "done"
    /\ UNCHANGED <<web, tables, args, history, threads>>

NextLabels == CallCalculateLabels \/ CallGet12Phase

SpecLabels == InitLabels /\ [][NextLabels]_vars

\* whether the call's arguments hold a label missing from its table
HasUnknownLabel(a) ==
    IF a.op = "calculate"
    THEN a.a.stem_god \notin TenGods \/ a.a.branch_god \notin TenGods
    ELSE a.day_master \notin Stems \/ a.branch \notin Branches

\* C13: a call with a stem, branch or Ten-God label that is not in the table
\* it is looked up in ends in an error: calculate produces no FortuneResult
\* and get_12_phase returns no phase value.
C13_UnknownLabelRaises ==
    (pc = "done" /\ HasUnknownLabel(args)) => ret.raised

(***************************************************************************)
(* SpecDaily: one request to get_daily_fortune (api/fortune.py lines       *)
(* 176-549), step by step.  The services it calls are taken by their       *)
(* outcome: what they return or that they raise, and what they store.       *)
(* One user, one date and one language, hence one cache key and one row    *)
(* per table.                                                              *)
(***************************************************************************)
CacheKey == "user:today:language"

\* the request and what it finds: query parameters, credentials and the
\* user's birth date
DailyRequests ==
    [use_mock : BOOLEAN, local_date : {"none", "valid", "malformed"},
     frontend_draw : BOOLEAN, force_regenerate : BOOLEAN,
     credentials : BOOLEAN, birth_date : {"none", "valid", "out_of_range"}]

\* lines 512-520: the three stored parts of a fortune
FortuneRow(bazi, tarot, battery) ==
    [daily_bazi |-> bazi, daily_tarot |-> tarot, battery_fortune |-> battery]

\* lines 386-391 and 532-537: the response built from the three parts
FortuneResult(row, from_cache) ==
    [bazi_analysis |-> row.daily_bazi, tarot_reading |-> row.daily_tarot,
     battery_fortune |-> row.battery_fortune, from_cache |-> from_cache]

\* the texts generate_battery_fortune may come back with
FortuneTexts == {"text_a", "text_b"}

PreparedRow == FortuneRow("chart", "card", "prepared_text")

CacheStates ==
    {<<>>} \cup {CacheKey :> [data |-> FortuneResult(PreparedRow, TRUE), fresh |-> f] :
                    f \in BOOLEAN}
DetailStates == {<<>>, CacheKey :> PreparedRow}
DrawStates == {<<>>, CacheKey :> "earlier_draw"}

InitDaily ==
    /\ TablesInit
    /\ NoHistory /\ NoThreads
    /\ pc = "parse_date"
    /\ args \in DailyRequests
    /\ ret = NoValue
    /\ _fortune_cache \in CacheStates
    /\ daily_fortune_details \in DetailStates
    /\ user_daily_draws \in DrawStates
    /\ locals = [entry |-> <<_fortune_cache, daily_fortune_details, user_daily_draws>>,
                 user_memory |-> NoValue, bazi_analysis |-> NoValue,
                 tarot_reading |-> NoValue, battery_fortune |-> NoValue,
                 request |-> 1]

\* the request ends with this response
Respond(status, body) ==
    /\ ret' = [status |-> status, body |-> body]
    /\ pc' = "done"

Log(op, outcome) == history' = Append(history, [op |-> op, outcome |-> outcome])

\* lines 206-214
ParseDate ==
    /\ pc = "parse_date"
    /\ IF args.local_date = "malformed"
       THEN Respond(400, "bad date format")
       ELSE /\ pc' = IF args.use_mock THEN "mock" ELSE "auth"
            /\ ret' = ret
    /\ UNCHANGED <<tables, args, history, threads, web>>

\* lines 217-350: the stored fortune of the mock user, else placeholder data
MockMode ==
    /\ pc = "mock"
    /\ \E found \in BOOLEAN :
          Respond(200, IF found THEN "mock_stored" ELSE "mock_placeholder")
    /\ UNCHANGED <<tables, args, history, threads, web>>

\* lines 353-361
Authenticate ==
    /\ pc = "auth"
    /\ IF ~args.credentials
       THEN Respond(401, "authentication required")
       ELSE pc' = "cache" /\ ret' = ret
    /\ UNCHANGED <<tables, args, history, threads, web>>

\* lines 364-370
CacheCheck ==
    /\ pc = "cache"
    /\ IF /\ ~args.force_regenerate
          /\ CacheKey \in DOMAIN _fortune_cache
          /\ _fortune_cache[CacheKey].fresh
       THEN /\ Log("_fortune_cache", "hit")
            /\ Respond(200, _fortune_cache[CacheKey].data)
       ELSE /\ history' = history
            /\ pc' = "lookup" /\ ret' = ret
    /\ UNCHANGED <<tables, args, threads, web>>

\* lines 373-418: a stored row is returned and cached; an exception of the
\* query is swallowed
DbLookup ==
    /\ pc = "lookup"
    /\ \E query_raises \in BOOLEAN :
          IF /\ ~args.force_regenerate
             /\ ~query_raises
             /\ CacheKey \in DOMAIN daily_fortune_details
          THEN LET result == FortuneResult(daily_fortune_details[CacheKey], TRUE)
               IN  /\ Log("daily_fortune_details", "found")
                   /\ Respond(200, result)
                   /\ _fortune_cache' =
                         (CacheKey :> [data |-> result, fresh |-> TRUE])
          ELSE /\ history' = history
               /\ pc' = "birth" /\ ret' = ret
               /\ _fortune_cache' = _fortune_cache
    /\ UNCHANGED <<tables, args, threads, daily_fortune_details,
                   user_daily_draws, locals>>

\* lines 424-427
BirthCheck ==
    /\ pc = "birth"
    /\ IF args.birth_date = "none"
       THEN Respond(400, "birth date not set")
       ELSE pc' = "memory" /\ ret' = ret
    /\ UNCHANGED <<tables, args, history, threads, web>>

\* lines 430-435: a failure gives the empty memory
GetMemory ==
    /\ pc = "memory"
    /\ \E m \in {"memory", "empty"} : locals' = [locals EXCEPT !.user_memory = m]
    /\ pc' = "bazi"
    /\ UNCHANGED <<tables, args, ret, history, threads, _fortune_cache,
                   daily_fortune_details, user_daily_draws>>

\* a variant of AnalyzeDailyFlow that handles the exception the way
\* GetMemory does, with a default value
AnalyzeDailyFlow_DefaultChart ==
    /\ pc = "bazi"
    /\ \E raised \in (IF args.birth_date = "out_of_range" THEN {TRUE} ELSE BOOLEAN) :
          IF raised
          THEN /\ Log("analyze_daily_flow", "raised")
               /\ locals' = [locals EXCEPT !.bazi_analysis = "default_chart"]
               /\ pc' = "tarot" /\ ret' = ret
          ELSE /\ Log("analyze_daily_flow", "returned")
               /\ locals' = [locals EXCEPT !.bazi_analysis = "chart"]
               /\ pc' = "tarot" /\ ret' = ret
    /\ UNCHANGED <<tables, args, threads, _fortune_cache, daily_fortune_details,
                   user_daily_draws>>

\* lines 437-442: the chart of the birth date; the calendar library raises
\* for a date out of its range, and the call may raise for other reasons
AnalyzeDailyFlow ==
    /\ pc = "bazi"
    /\ \E raised \in (IF args.birth_date = "out_of_range" THEN {TRUE} ELSE BOOLEAN) :
          IF raised
          THEN /\ Log("analyze_daily_flow", "raised")
               /\ Respond(500, "Failed during BaZi analysis.")
               /\ locals' = locals
          ELSE /\ Log("analyze_daily_flow", "returned")
               /\ locals' = [locals EXCEPT !.bazi_analysis = "chart"]
               /\ pc' = "tarot" /\ ret' = ret
    /\ UNCHANGED <<tables, args, threads, _fortune_cache, daily_fortune_details,
                   user_daily_draws>>

\* lines 446-477: the card of the request, or the day's draw; either may
\* store a draw record
DrawTarot ==
    /\ pc = "tarot"
    /\ \E outcome \in {"card", "error", "raised"}, stored \in BOOLEAN :
          /\ Log(IF args.frontend_draw THEN "get_card_by_id" ELSE "draw_daily_card",
                 outcome)
          /\ user_daily_draws' =
                IF stored THEN (CacheKey :> "draw") ELSE user_daily_draws
          /\ IF outcome = "raised"
             THEN Respond(500, "Failed during Tarot card drawing.") /\ locals' = locals
             ELSE IF outcome = "error" /\ args.frontend_draw
             THEN Respond(400, "tarot error") /\ locals' = locals
             ELSE /\ locals' = [locals EXCEPT !.tarot_reading = outcome]
                  /\ pc' = "context" /\ ret' = ret
    /\ UNCHANGED <<tables, args, threads, _fortune_cache, daily_fortune_details>>

\* lines 480-486: read only, a failure is swallowed
GetContext ==
    /\ pc = "context"
    /\ pc' = "battery"
    /\ UNCHANGED <<tables, args, ret, history, threads, web>>

\* lines 489-509: scoring and text generation
GenerateBattery ==
    /\ pc = "battery"
    /\ \E outcome \in {"fortune", "empty", "raised"}, text \in FortuneTexts :
          /\ Log("generate_battery_fortune", outcome)
          /\ IF outcome = "fortune"
             THEN /\ locals' = [locals EXCEPT !.battery_fortune = text]
                  /\ pc' = "save" /\ ret' = ret
             ELSE Respond(500, "fortune generation failed") /\ locals' = locals
    /\ UNCHANGED <<tables, args, threads, _fortune_cache, daily_fortune_details,
                   user_daily_draws>>

\* lines 512-529: the upsert; its failure is logged and swallowed
SaveDetails ==
    /\ pc = "save"
    /\ \E saved \in BOOLEAN :
          daily_fortune_details' =
              IF saved
              THEN (CacheKey :> FortuneRow(locals.bazi_analysis, locals.tarot_reading,
                                           locals.battery_fortune))
              ELSE daily_fortune_details
    /\ pc' = "respond"
    /\ UNCHANGED <<tables, args, ret, history, threads, _fortune_cache,
                   user_daily_draws, locals>>

\* lines 532-549
RespondNew ==
    /\ pc = "respond"
    /\ LET result == FortuneResult(FortuneRow(locals.bazi_analysis, locals.tarot_reading,
                                              locals.battery_fortune), FALSE)
       IN  /\ _fortune_cache' = (CacheKey :> [data |-> result, fresh |-> TRUE])
           /\ Respond(200, result)
    /\ UNCHANGED <<tables, args, history, threads, daily_fortune_details,
                   user_daily_draws, locals>>

NextDaily ==
    \/ ParseDate \/ MockMode \/ Authenticate \/ CacheCheck \/ DbLookup
    \/ BirthCheck \/ GetMemory \/ AnalyzeDailyFlow \/ DrawTarot \/ GetContext
    \/ GenerateBattery \/ SaveDetails \/ RespondNew

SpecDaily == InitDaily /\ [][NextDaily]_vars

Called(op) == \E i \in 1..Len(history) : history[i].op = op
ChartRaised ==
    \E i \in 1..Len(history) :
        history[i].op = "analyze_daily_flow" /\ history[i].outcome = "raised"

\* C14: when analyze_daily_flow raises, the request ends with an error
\* response and no default chart: no tarot card is drawn or recorded, no
\* scoring or text generation runs, no daily_fortune_details row is upserted
\* and no _fortune_cache entry is written.
C14_ChartFailureStops ==
    ChartRaised =>
        /\ pc = "done"
        /\ ret.status = 500
        /\ ret.body = "Failed during BaZi analysis."
        /\ locals.bazi_analysis = NoValue
        /\ ~Called("get_card_by_id") /\ ~Called("draw_daily_card")
        /\ locals.tarot_reading = NoValue
        /\ ~Called("generate_battery_fortune")
        /\ locals.battery_fortune = NoValue
        /\ user_daily_draws = locals.entry[3]
        /\ daily_fortune_details = locals.entry[2]
        /\ _fortune_cache = locals.entry[1]

\* C14 witness: a forced regeneration for a user whose birth date the
\* calendar library rejects has ended with the error response, past a fresh
\* cache entry and a stored row.
C14_Witness ==
    /\ pc = "done"
    /\ ChartRaised
    /\ args.birth_date = "out_of_range"
    /\ args.force_regenerate
    /\ ret.status = 500
    /\ CacheKey \in DOMAIN _fortune_cache
    /\ CacheKey \in DOMAIN daily_fortune_details

(***************************************************************************)
(* SpecBattery: the scoring and ranking part of                            *)
(* StructuredFortuneService.generate_battery_fortune                       *)
(* (structured_fortune_service.py lines 299-384 and 513-514); the text      *)
(* written between those lines does not enter the two ranked fields.       *)
(*   labels : shi_ye 事业  cai_fu 财富  gan_qing 感情  ren_ji 人际  xue_ye 学业 *)
(***************************************************************************)
domain_labels ==
    [career |-> "shi_ye", wealth |-> "cai_fu", love |-> "gan_qing",
     social |-> "ren_ji", study |-> "xue_ye"]

energy_intensity_table ==
    [qi_sha |-> 5, shang_guan |-> 4, pian_cai |-> 4, jie_cai |-> 3,
     shi_shen |-> 3, zheng_guan |-> 3, zheng_cai |-> 2, zheng_yin |-> 2,
     pian_yin |-> 2, bi_jian |-> 1]

_energy_intensity(god) ==
    IF god \in DOMAIN energy_intensity_table THEN energy_intensity_table[god] ELSE 0

static_priority == [career |-> 5, wealth |-> 4, love |-> 3, study |-> 2, social |-> 1]

\* lines 332-338
_is_major(card_id) ==
    IF card_id = "" THEN 0
    ELSE IF card_id \in DOMAIN DigitPrefix /\ DigitPrefix[card_id] < 22 THEN 1
    ELSE 0

\* lines 363-375: one item per entry of domain_scores, in the order the
\* scoring loop inserted them
SortableItems(scoring_result, stem_god_raw, branch_god_raw, tarot_card_id) ==
    LET is_major_arcana == IF scoring_result.is_major_arcana THEN 1
                           ELSE _is_major(tarot_card_id)
        energy_intensity == Max(_energy_intensity(stem_god_raw),
                                _energy_intensity(branch_god_raw))
    IN  [i \in 1..Len(DOMAINS) |->
            LET domain == DOMAINS[i]
            IN  [domain |-> domain,
                 score |-> scoring_result.domain_scores[domain],
                 tarot_contrib |->
                     IF domain \in DOMAIN scoring_result.domain_tarot_contribution
                     THEN scoring_result.domain_tarot_contribution[domain]
                     ELSE scoring_result.tarot_modifiers[domain],
                 is_major |-> is_major_arcana,
                 energy_intensity |-> energy_intensity,
                 priority |-> IF domain \in DOMAIN static_priority
                              THEN static_priority[domain] ELSE 0]]

\* line 379: the sort key
SortKey(x) == <<x.score, x.tarot_contrib, x.is_major, x.energy_intensity, x.priority>>

\* Python's order of tuples of numbers, from position i on
RECURSIVE TupleLess(_, _, _)
TupleLess(a, b, i) ==
    IF i > Len(a) \/ i > Len(b) THEN Len(a) < Len(b)
    ELSE IF a[i] < b[i] THEN TRUE
    ELSE IF a[i] > b[i] THEN FALSE
    ELSE TupleLess(a, b, i + 1)

\* x put into a sequence that is in descending key order, after the items
\* whose key is not smaller (sorted keeps equal keys in their given order)
RECURSIVE InsertDescending(_, _)
InsertDescending(s, x) ==
    IF s = <<>> THEN <<x>>
    ELSE IF TupleLess(SortKey(Head(s)), SortKey(x), 1)
    THEN <<x>> \o s
    ELSE <<Head(s)>> \o InsertDescending(Tail(s), x)

RECURSIVE InsertAscending(_, _)
InsertAscending(s, x) ==
    IF s = <<>> THEN <<x>>
    ELSE IF TupleLess(SortKey(x), SortKey(Head(s)), 1)
    THEN <<x>> \o s
    ELSE <<Head(s)>> \o InsertAscending(Tail(s), x)

RECURSIVE SortedAscending(_)
\* a variant of SortedDescending without reverse=True
SortedAscending(items) ==
    IF items = <<>> THEN <<>>
    ELSE InsertAscending(SortedAscending(SubSeq(items, 1, Len(items) - 1)),
                         items[Len(items)])

RECURSIVE SortedDescending(_)
\* lines 377-381: sorted(sortable_items, key=..., reverse=True)
SortedDescending(items) ==
    IF items = <<>> THEN <<>>
    ELSE InsertDescending(SortedDescending(SubSeq(items, 1, Len(items) - 1)),
                          items[Len(items)])

\* what generate_battery_fortune computes from the chart analysis and the
\* card: the scoring result, the ranking and the two ranked fields
BatteryRanking(a) ==
    LET scoring_result == calculate(a)
        sorted_domains ==
            SortedDescending(SortableItems(scoring_result, a.stem_god,
                                           a.branch_god, a.tarot_card_id))
        fast_domain == sorted_domains[1].domain
        drain_domain == sorted_domains[Len(sorted_domains)].domain
    IN  [scoring_result |-> scoring_result,
         sorted_domains |-> sorted_domains,
         fast_charge_domain |-> domain_labels[fast_domain],
         power_drain_domain |-> domain_labels[drain_domain]]

BatteryInputs ==
    [body_strength : BodyStrengths, energy_phase : {"di_wang", "shuai"},
     branch_relation : {"clash", "none", "combine"}, nobleman_score : {0, 15},
     stem_god : TenGods, branch_god : TenGods,
     tarot_card_id : {"19_sun", "w_4", ""}, tarot_is_upright : BOOLEAN,
     gender : Genders]

InitBattery ==
    /\ TablesInit
    /\ NoRequest
    /\ NoHistory /\ NoThreads
    /\ pc = "call"
    /\ args \in BatteryInputs
    /\ ret = NoValue

GenerateBatteryFortune ==
    /\ pc = "call"
    /\ ret' = BatteryRanking(args)
    /\ pc' = "done"
    /\ UNCHANGED <<web, tables, args, history, threads>>

NextBattery == GenerateBatteryFortune

SpecBattery == InitBattery /\ [][NextBattery]_vars

\* the stated ranking tuple of a domain, read off the scoring result
C15_Tuple(r, a, d) ==
    <<r.domain_scores[d], r.domain_tarot_contribution[d],
      IF r.is_major_arcana THEN 1 ELSE 0,
      Max(_energy_intensity(a.stem_god), _energy_intensity(a.branch_god)),
      CASE d = "career" -> 5 [] d = "wealth" -> 4 [] d = "love" -> 3
        [] d = "study" -> 2 [] d = "social" -> 1>>

\* the domain that comes before d and e is ranked higher: first position
\* where the tuples differ
C15_Higher(x, y) ==
    \E k \in 1..5 : x[k] > y[k] /\ \A j \in 1..(k - 1) : x[j] = y[j]

\* C15: the five domains are ranked by (score, tarot contribution, major
\* flag, energy intensity, static priority), every key descending; the
\* fast-charge domain is the first and the power-drain domain the last of
\* the ranking, the two differ, and when all five scores and tarot
\* contributions are equal they are career and social.
C15_Ranking ==
    pc = "done" =>
        LET r == ret.scoring_result
            s == ret.sorted_domains
        IN  /\ Len(s) = 5
            /\ {s[i].domain : i \in 1..5} = DomainSet
            /\ \A i, j \in 1..5 :
                  i < j => C15_Higher(C15_Tuple(r, args, s[i].domain),
                                      C15_Tuple(r, args, s[j].domain))
            /\ ret.fast_charge_domain = domain_labels[s[1].domain]
            /\ ret.power_drain_domain = domain_labels[s[5].domain]
            /\ ret.fast_charge_domain # ret.power_drain_domain
            /\ (\A d, e \in DomainSet :
                    /\ r.domain_scores[d] = r.domain_scores[e]
                    /\ r.domain_tarot_contribution[d] = r.domain_tarot_contribution[e])
               => /\ ret.fast_charge_domain = "shi_ye"
                  /\ ret.power_drain_domain = "ren_ji"

\* C15 witness: all five scores and tarot contributions are equal; career is
\* fast-charge and social is power-drain.
C15_Witness ==
    /\ pc = "done"
    /\ \A d, e \in DomainSet :
          /\ ret.scoring_result.domain_scores[d] = ret.scoring_result.domain_scores[e]
          /\ ret.scoring_result.domain_tarot_contribution[d]
                = ret.scoring_result.domain_tarot_contribution[e]
    /\ ret.fast_charge_domain = "shi_ye"
    /\ ret.power_drain_domain = "ren_ji"

\* a second case: two domains tie on the score and the tarot contribution
\* decides between them against the static priority
C15_WitnessTarot ==
    /\ pc = "done"
    /\ \E i \in 1..4 :
          LET x == ret.sorted_domains[i]
              y == ret.sorted_domains[i + 1]
          IN  x.score = y.score /\ x.tarot_contrib > y.tarot_contrib
              /\ x.priority < y.priority


(***************************************************************************)
(* SpecStem: one call of BaZiService._score_stem_support                   *)
(***************************************************************************)
\* the base weights the caller passes: 10 for the month stem, 5 for the year
\* stem (bazi_service.py lines 163-166)
StemWeights == {10, 5}

StemInputs ==
    {[dm_el |-> e, stem |-> p.stem, sitting_branch |-> p.branch,
      base_weight |-> w] : e \in Elements, p \in Pillars, w \in StemWeights}

InitStem ==
    /\ TablesInit
    /\ NoRequest
    /\ NoHistory /\ NoThreads
    /\ pc = "call"
    /\ args \in StemInputs
    /\ ret = NoValue

CallScoreStemSupport ==
    /\ pc = "call"
    /\ ret' = _score_stem_support(args.dm_el, args.stem, args.sitting_branch,
                                  args.base_weight)
    /\ pc' = "done"
    /\ UNCHANGED <<web, tables, args, history, threads>>

NextStem == CallScoreStemSupport

SpecStem == InitStem /\ [][NextStem]_vars

\* the stem's element is the day master's or generates it
StemHelps(a) ==
    LET stem_el == HEAVENLY_STEMS[a.stem].element
    IN  stem_el = a.dm_el \/ Generates(stem_el, a.dm_el)

\* the sitting branch is a root of the stem: its main element is the stem's
\* or generates it
SittingRoot(a) ==
    LET stem_el == HEAVENLY_STEMS[a.stem].element
        sit_b_el == EARTHLY_BRANCHES[a.sitting_branch].element
    IN  sit_b_el = stem_el \/ Generates(sit_b_el, stem_el)

\* a hidden stem of the sitting branch has the stem's element
HiddenRedeems(a) ==
    LET hs == EARTHLY_BRANCHES[a.sitting_branch].hidden_stems
    IN  \E i \in 1..Len(hs) :
            HEAVENLY_STEMS[hs[i]].element = HEAVENLY_STEMS[a.stem].element

\* the sitting branch's main element overcomes the stem's element
SittingOvercomes(a) ==
    Overcomes(EARTHLY_BRANCHES[a.sitting_branch].element,
              HEAVENLY_STEMS[a.stem].element)

\* the coefficient in hundredths as documented: 1.0, else 0.7, else 0.3, else 0.6
C16_Coeff(a) ==
    IF SittingRoot(a) THEN 100
    ELSE IF HiddenRedeems(a) THEN 70
    ELSE IF SittingOvercomes(a) THEN 30
    ELSE 60

\* C16: a stem whose element equals or generates the day-master element
\* scores weight x 1.0 when the sitting branch is a root of the stem, else
\* x 0.7 when a hidden stem of the sitting branch has the stem's element, else
\* x 0.3 when the sitting branch's main element overcomes the stem's element
\* (jia sitting on shen), else x 0.6; any other stem scores 0.
C16_StemSupportCoefficients ==
    pc = "done" =>
        ret = IF StemHelps(args) THEN args.base_weight * C16_Coeff(args) ELSE 0

\* a helping stem cut at the root without redemption has returned weight x 0.6
C16_CutRootScoresDefault ==
    /\ pc = "done"
    /\ StemHelps(args) /\ ~SittingRoot(args) /\ ~HiddenRedeems(args)
    /\ SittingOvercomes(args)
    /\ args.stem = "tg_jia" /\ args.sitting_branch = "dz_shen"
    /\ ret = args.base_weight * 60

(***************************************************************************)
(* The nobleman bonus of _calc_overall_score, read from the returned       *)
(* bazi_modifiers['overall'] = overall_base - BASE_SCORE (SpecCalc)        *)
(***************************************************************************)
\* what body strength, energy phase and the two gods add to modifier
C17_Rest(a) ==
    EnergyPhaseModifier(a.body_strength, a.energy_phase)
    + (IF _check_is_favorable(a.stem_god, a.body_strength) THEN 500 ELSE -500)
    + (IF _check_is_favorable(a.branch_god, a.body_strength) THEN 500 ELSE -500)
    + (IF a.stem_god \in FIERCE_GODS THEN -300 ELSE 0)

\* the nobleman bonus as stated, in hundredths
C17_Bonus(a) ==
    IF a.nobleman_score >= 15 THEN 800
    ELSE IF a.nobleman_score > 0 /\ a.nobleman_score < 15 THEN 400
    ELSE 0

\* the net branch-relation contribution as stated, in hundredths
C17_NetRelation(a) ==
    CASE a.branch_relation \in {"combine", "3-combine"} -> 700
      [] a.branch_relation = "clash" -> IF C17_Bonus(a) # 0 THEN 0 ELSE -700
      [] a.branch_relation \in {"harm", "punish"} ->
            IF C17_Bonus(a) # 0 THEN 0 ELSE -400
      [] OTHER -> 0

\* C17: the nobleman bonus is +8 for nobleman_score >= 15, +4 for
\* 0 < nobleman_score < 15 and 0 otherwise; with a nonzero bonus the -7 of
\* clash and the -4 of harm or punish are added back in full (net branch
\* contribution 0), with no bonus the penalty stands, and the +7 of combine
\* or 3-combine is never cancelled.
C17_NoblemanAddBack ==
    pc = "done" =>
        ret.bazi_modifiers["overall"]
            = C17_Rest(args) + C17_Bonus(args) + C17_NetRelation(args)

\* C17 witness: a clash with the minor bonus has returned a modifier in which
\* the -7 is cancelled and only the +4 is left of the two.
C17_Witness ==
    /\ pc = "done"
    /\ args.branch_relation = "clash" /\ args.nobleman_score = 10
    /\ ret.bazi_modifiers["overall"] = C17_Rest(args) + 400

(***************************************************************************)
(* SpecTarot: one call of FortuneScoringEngine._calc_phase_3_tarot         *)
(***************************************************************************)
\* every card of the table and three identifiers that are not keys of it
TarotCards == DOMAIN TAROT_OFFSETS \cup {"", "7", "22_extra"}

\* the keys calculate asks for (lines 248 and 258) and one key no card has
TarotKeys == {"overall"} \cup DomainSet \cup {"health"}

TarotInputs == [card_id : TarotCards, is_upright : BOOLEAN, domain : TarotKeys]

InitTarot ==
    /\ TablesInit
    /\ NoRequest
    /\ NoHistory /\ NoThreads
    /\ pc = "call"
    /\ args \in TarotInputs
    /\ ret = NoValue

CallCalcPhase3Tarot ==
    /\ pc = "call"
    /\ ret' = _calc_phase_3_tarot(args.card_id, args.is_upright, args.domain)
    /\ pc' = "done"
    /\ UNCHANGED <<web, tables, args, history, threads>>

NextTarot == CallCalcPhase3Tarot

SpecTarot == InitTarot /\ [][NextTarot]_vars

\* the offset as stated: the entry for the key, else 'overall', else 0
C18_Offset(a) ==
    IF a.card_id \notin DOMAIN TAROT_OFFSETS THEN 0
    ELSE IF a.domain \in DOMAIN TAROT_OFFSETS[a.card_id]
         THEN TAROT_OFFSETS[a.card_id][a.domain]
    ELSE IF "overall" \in DOMAIN TAROT_OFFSETS[a.card_id]
         THEN TAROT_OFFSETS[a.card_id]["overall"]
    ELSE 0

\* the stated multiplier: 6 when the id starts with an integer below 22
C18_Multiplier(a) ==
    IF a.card_id \in DOMAIN DigitPrefix /\ DigitPrefix[a.card_id] < 22
    THEN 6 ELSE 5

Sign(x) == IF x > 0 THEN 1 ELSE IF x < 0 THEN -1 ELSE 0

\* C18: the modifier is offset x multiplier x orientation factor: the offset
\* is the card's entry for the key, else its 'overall' entry, else 0 (a card
\* without 'overall' has an overall modifier of 0); the multiplier is 6.0 for
\* an id that starts with an integer below 22 and 5.0 otherwise; the factor
\* is 1 upright and 0.5 reversed, so reversal halves the magnitude and keeps
\* the sign.
C18_TarotModifier ==
    pc = "done" =>
        LET full == C18_Offset(args) * C18_Multiplier(args)
        IN  /\ args.is_upright => ret = full
            /\ ~args.is_upright => 2 * ret = full
            /\ Sign(ret) = Sign(C18_Offset(args))
            /\ (/\ args.card_id \in DOMAIN TAROT_OFFSETS
                /\ "overall" \notin DOMAIN TAROT_OFFSETS[args.card_id]
                /\ args.domain = "overall") => ret = 0

\* C18 witness: the reversed Tower, asked for career, has returned
\* -2.0 x 6.0 x 0.5 = -6.0.
C18_Witness ==
    /\ pc = "done"
    /\ args = [card_id |-> "16_tower", is_upright |-> FALSE, domain |-> "career"]
    /\ ret = -600

\* a card without an 'overall' entry, asked for 'overall', has returned 0
C18_NoOverallEntry ==
    /\ pc = "done"
    /\ args.card_id = "w_ace" /\ args.domain = "overall"
    /\ "overall" \notin DOMAIN TAROT_OFFSETS["w_ace"]
    /\ ret = 0

\* a key the card lacks has fallen back to the card's 'overall' entry
C18_FallsBackToOverall ==
    /\ pc = "done"
    /\ args = [card_id |-> "19_sun", is_upright |-> TRUE, domain |-> "health"]
    /\ ret = TAROT_OFFSETS["19_sun"]["overall"] * 6

(***************************************************************************)
(* SpecPattern: one call of SpecialPatternService.calculate_pattern_score  *)
(***************************************************************************)
\* the ten gods and the label _get_ten_god_relation returns for a missing stem
PatternGods == TenGods \cup {"unknown_relation"}

PatternInputs == [stem_god : PatternGods, branch_god : PatternGods]

InitPattern ==
    /\ TablesInit
    /\ NoRequest
    /\ NoHistory /\ NoThreads
    /\ pc = "call"
    /\ args \in PatternInputs
    /\ ret = NoValue

CallCalculatePatternScore ==
    /\ pc = "call"
    /\ ret' = calculate_pattern_score(args.stem_god, args.branch_god)
    /\ pc' = "done"
    /\ UNCHANGED <<web, tables, args, history, threads>>

NextPattern == CallCalculatePatternScore

SpecPattern == InitPattern /\ [][NextPattern]_vars

\* the broad category of a god, 'Unknown' for a label outside the table
Category(god) == IF god \in DOMAIN GOD_TYPES THEN GOD_TYPES[god] ELSE "Unknown"

\* the two categories x and y meet, in either position
Meets(x, y, a) ==
    \/ Category(a.stem_god) = x /\ Category(a.branch_god) = y
    \/ Category(a.stem_god) = y /\ Category(a.branch_god) = x

\* a god of category x meets qi_sha, in either position
MeetsQiSha(x, a) ==
    \/ Category(a.stem_god) = x /\ a.branch_god = "qi_sha"
    \/ a.stem_god = "qi_sha" /\ Category(a.branch_god) = x

\* the conditions of the ten named pairings, in source order
NamedPairings(a) ==
    << {a.stem_god, a.branch_god} = {"shang_guan", "zheng_guan"},
       Meets("Resource", "Output", a),
       MeetsQiSha("Wealth", a),
       Meets("Peer", "Wealth", a),
       MeetsQiSha("Output", a),
       Meets("Power", "Resource", a),
       Meets("Output", "Wealth", a),
       Meets("Wealth", "Power", a),
       Meets("Resource", "Peer", a),
       Meets("Power", "Peer", a) >>

\* their tuples: career, wealth, love, study, social
NamedTuples ==
    << <<-20, -10, -15, -10, -15>>, <<-10, -10, -5, 5, -10>>,
       <<-5, -15, -10, -10, -5>>, <<-5, -15, -10, 0, 5>>,
       <<20, 10, -5, 10, 15>>, <<20, 5, 10, 20, 10>>,
       <<10, 20, 10, -5, 10>>, <<15, 10, 10, 0, 10>>,
       <<5, 5, 5, 15, 15>>, <<15, 10, 5, 5, -5>> >>

AsTuple(scores) ==
    <<scores["career"], scores["wealth"], scores["love"], scores["study"],
      scores["social"]>>

SomeNamedPairing(a) == \E i \in 1..10 : NamedPairings(a)[i]

FirstNamedPairing(a) ==
    CHOOSE i \in 1..10 :
        NamedPairings(a)[i] /\ \A j \in 1..(i - 1) : ~NamedPairings(a)[j]

\* C19: the result is the tuple of the first named pairing, in source order,
\* whose condition holds; shang_guan with zheng_guan in either position gives
\* career -20, wealth -10, love -15, study -10, social -15; a Wealth god with
\* qi_sha gives the Wealth-meets-qi_sha penalty and not the later Wealth/Power
\* bonus; an Output god with qi_sha gives its bonus; every result has exactly
\* the five domain keys.
C19_FirstMatchWins ==
    pc = "done" =>
        /\ DOMAIN ret = DomainSet
        /\ SomeNamedPairing(args)
              => AsTuple(ret) = NamedTuples[FirstNamedPairing(args)]
        /\ {args.stem_god, args.branch_god} = {"shang_guan", "zheng_guan"}
              => AsTuple(ret) = <<-20, -10, -15, -10, -15>>
        /\ MeetsQiSha("Wealth", args)
              => /\ AsTuple(ret) = <<-5, -15, -10, -10, -5>>
                 /\ AsTuple(ret) # <<15, 10, 10, 0, 10>>
        /\ MeetsQiSha("Output", args) => AsTuple(ret) = <<20, 10, -5, 10, 15>>

\* C19 witness: zheng_cai over qi_sha satisfies both the Wealth-meets-qi_sha
\* and the Wealth/Power condition and has returned the penalty of the earlier.
C19_Witness ==
    /\ pc = "done"
    /\ args = [stem_god |-> "zheng_cai", branch_god |-> "qi_sha"]
    /\ NamedPairings(args)[3] /\ NamedPairings(args)[8]
    /\ AsTuple(ret) = <<-5, -15, -10, -10, -5>>

\* the two gods share one of the five broad categories
SharedCategory(a) ==
    /\ Category(a.stem_god) = Category(a.branch_god)
    /\ Category(a.stem_god) \in {"Resource", "Peer", "Output", "Wealth", "Power"}

\* the same-category tuple of each category (lines 45-49)
SameCategoryTuple(category) ==
    CASE category = "Output" -> <<10, 15, 10, 5, 15>>
      [] category = "Wealth" -> <<5, 20, 15, -10, 5>>
      [] category = "Resource" -> <<-5, -5, -5, 20, -5>>
      [] category = "Peer" -> <<0, -15, -10, 0, 20>>
      [] category = "Power" -> <<10, -5, -5, -5, -5>>

\* C20: every pair of gods of the same broad category, Power included
\* (zheng_guan/zheng_guan, zheng_guan/qi_sha, qi_sha/zheng_guan,
\* qi_sha/qi_sha), gets the same-category tuple of that category, and the
\* all-zero map is returned only when neither a named pairing nor a shared
\* category applies.
C20_SameCategoryFallback ==
    pc = "done" =>
        /\ (~SomeNamedPairing(args) /\ SharedCategory(args))
              => AsTuple(ret) = SameCategoryTuple(Category(args.stem_god))
        /\ AsTuple(ret) = <<0, 0, 0, 0, 0>>
              => ~SomeNamedPairing(args) /\ ~SharedCategory(args)

\* two Power gods with zheng_guan as the stem god have returned the all-zero map
C20_PowerPairAllZero ==
    /\ pc = "done"
    /\ args.stem_god = "zheng_guan" /\ args.branch_god \in {"zheng_guan", "qi_sha"}
    /\ AsTuple(ret) = <<0, 0, 0, 0, 0>>

(***************************************************************************)
(* SpecGender: two calls of FortuneScoringEngine.calculate whose arguments *)
(* differ only in gender                                                   *)
(***************************************************************************)
\* 'Male', and three values the love rule (line 184) treats as not 'Male'
GenderValues == Genders \cup {"Other", "male"}

\* the arguments of the two calls
GenderInputs ==
    {<<CalcArgs(bs, "shuai", rel, 0, sg, bg, card, up, g[1]),
       CalcArgs(bs, "shuai", rel, 0, sg, bg, card, up, g[2])>> :
        bs \in BodyStrengths, rel \in {"none", "clash"}, sg \in TenGods,
        bg \in TenGods, card \in {"19_sun", "w_4"}, up \in BOOLEAN,
        g \in {x \in GenderValues \X GenderValues : x[1] # x[2]}}

InitGender ==
    /\ TablesInit
    /\ NoRequest
    /\ NoThreads
    /\ pc = "first"
    /\ args \in GenderInputs
    /\ ret = NoValue
    /\ history = <<>>

CallFirstGender ==
    /\ pc = "first"
    /\ history' = Append(history, [op |-> "calculate", args |-> args[1],
                                   ret |-> calculate(args[1])])
    /\ pc' = "second"
    /\ UNCHANGED <<web, tables, args, ret, threads>>

CallSecondGender ==
    /\ pc = "second"
    /\ history' = Append(history, [op |-> "calculate", args |-> args[2],
                                   ret |-> calculate(args[2])])
    /\ pc' = "done"
    /\ UNCHANGED <<web, tables, args, ret, threads>>

NextGender == CallFirstGender \/ CallSecondGender

SpecGender == InitGender /\ [][NextGender]_vars

\* the fields of a result that the stated rule lets depend on gender
LoveScore(r) == <<r.domain_scores["love"], r.bazi_modifiers["love"]>>

\* a result without its love score and love modifier
WithoutLove(r) ==
    [r EXCEPT !.domain_scores = [d \in DOMAIN @ \ {"love"} |-> @[d]],
              !.bazi_modifiers = [d \in DOMAIN @ \ {"love"} |-> @[d]]]

\* C21: two calls that differ only in gender return the same overall_score,
\* low_power_mode and career, wealth, study and social scores and modifiers;
\* only the love score and love modifier may differ, and two values other
\* than 'Male' give the same result.
C21_GenderOnlyLove ==
    pc = "done" =>
        LET r1 == history[1].ret
            r2 == history[2].ret
        IN  /\ r1.overall_score = r2.overall_score
            /\ r1.low_power_mode = r2.low_power_mode
            /\ \A d \in {"career", "wealth", "study", "social"} :
                  /\ r1.domain_scores[d] = r2.domain_scores[d]
                  /\ r1.bazi_modifiers[d] = r2.bazi_modifiers[d]
                  /\ r1.tarot_modifiers[d] = r2.tarot_modifiers[d]
            /\ WithoutLove(r1) = WithoutLove(r2)
            /\ (args[1].gender # "Male" /\ args[2].gender # "Male") => r1 = r2

\* C21 witness: a 'Male' and a 'Female' call with the same other arguments
\* have returned different love scores and equal results otherwise.
C21_Witness ==
    /\ pc = "done"
    /\ args[1].gender = "Male" /\ args[2].gender = "Female"
    /\ [args[1] EXCEPT !.gender = "Female"] = args[2]
    /\ LoveScore(history[1].ret) # LoveScore(history[2].ret)
    /\ WithoutLove(history[1].ret) = WithoutLove(history[2].ret)

(***************************************************************************)
(* Symmetry of _get_branch_relationship (SpecBranch)                       *)
(***************************************************************************)
\* C27: the relation of (a, b) equals the relation of (b, a) for every pair
\* of the twelve branches; a branch paired with itself gives 'punish' for
\* chen, wu, you and hai and 'none' for the other eight.
C27_Symmetric ==
    pc = "done" =>
        /\ ret = _get_branch_relationship(args.branch2, args.branch1)
        /\ args.branch1 = args.branch2
              => ret = IF args.branch1 \in {"dz_chen", "dz_wu", "dz_you", "dz_hai"}
                       THEN "punish" ELSE "none"

\* C27 witness: zi/mao is decided by the punishment table, which lists each
\* of the two under the other, and the call has returned punish.
C27_Witness ==
    /\ pc = "done"
    /\ args = [branch1 |-> "dz_mao", branch2 |-> "dz_zi"]
    /\ ret = "punish"
    /\ _get_branch_relationship("dz_zi", "dz_mao") = "punish"

(***************************************************************************)
(* SpecFlow: one call of BaZiService.analyze_daily_flow.  The pillars of   *)
(* the birth date (cnlunar) and of the target date (sxtwl) are inputs.     *)
(***************************************************************************)
\* bazi_service.py lines 423-429
nobleman_map ==
    ("tg_jia" :> <<"dz_chou", "dz_wei">>) @@ ("tg_wu" :> <<"dz_chou", "dz_wei">>) @@
    ("tg_geng" :> <<"dz_chou", "dz_wei">>) @@
    ("tg_yi" :> <<"dz_zi", "dz_shen">>) @@ ("tg_ji" :> <<"dz_zi", "dz_shen">>) @@
    ("tg_bing" :> <<"dz_hai", "dz_you">>) @@ ("tg_ding" :> <<"dz_hai", "dz_you">>) @@
    ("tg_ren" :> <<"dz_si", "dz_mao">>) @@ ("tg_gui" :> <<"dz_si", "dz_mao">>) @@
    ("tg_xin" :> <<"dz_wu", "dz_yin">>)

\* lines 430-435: the score before the clash test
NoblemanBase(day_master, year_stem, daily_branch) ==
    LET s1 == IF InGetList(nobleman_map, day_master, daily_branch) THEN 15 ELSE 0
        s2 == s1 + (IF InGetList(nobleman_map, year_stem, daily_branch) THEN 10 ELSE 0)
    IN  IF s2 > 20 THEN 20 ELSE s2

\* a variant of _calculate_nobleman_score that does not halve on a clash
_calculate_nobleman_score_NoHalving(day_master, year_stem, daily_branch, user_day_branch) ==
    NoblemanBase(day_master, year_stem, daily_branch)

\* lines 421-441; int(score * 0.5) of a score that is not negative
_calculate_nobleman_score(day_master, year_stem, daily_branch, user_day_branch) ==
    LET score == NoblemanBase(day_master, year_stem, daily_branch)
    IN  IF _get_branch_relationship(user_day_branch, daily_branch) = "clash"
        THEN score \div 2
        ELSE score

\* lines 99-130: what analyze_daily_flow reads of calculate_bazi's result
calculate_bazi(pillars) ==
    [day_master |-> pillars.day.stem,
     year_pillar |-> pillars.year,
     month_pillar |-> pillars.month,
     day_pillar |-> pillars.day,
     body_strength |-> calculate_body_strength(pillars.day.stem, pillars)]

\* lines 190-247: the result, without its translated texts and the flow year
\* and month
analyze_daily_flow(pillars, flow_day) ==
    LET bazi_data == calculate_bazi(pillars)
        day_master_char == bazi_data.day_master
        user_day_branch == bazi_data.day_pillar.branch
        year_stem_char == bazi_data.year_pillar.stem
        daily_stem == flow_day.stem
        daily_branch == flow_day.branch
        branch_main_stem == bazi_service.EARTHLY_BRANCHES[daily_branch].main_hidden_stem
    IN  [day_master |-> day_master_char,
         body_strength |-> bazi_data.body_strength,
         energy_phase |-> get_12_phase(day_master_char, daily_branch),
         stem_influence |->
             [raw |-> _get_ten_god_relation(day_master_char, daily_stem)],
         branch_influence |->
             [raw |-> _get_ten_god_relation(day_master_char, branch_main_stem),
              relation_type |-> _get_branch_relationship(user_day_branch,
                                                         daily_branch)],
         flow_day |-> flow_day,
         nobleman_score |-> _calculate_nobleman_score(day_master_char,
                                year_stem_char, daily_branch, user_day_branch)]

\* the year pillars with branch zi or chou (every year stem), two month
\* pillars, every day pillar
FlowCharts ==
    [year : {p \in Pillars : p.branch \in {"dz_zi", "dz_chou"}},
     month : {[stem |-> "tg_bing", branch |-> "dz_wu"],
              [stem |-> "tg_xin", branch |-> "dz_you"]},
     day : Pillars]

FlowInputs == [pillars : FlowCharts, flow_day : Pillars]

InitFlow ==
    /\ TablesInit
    /\ NoRequest
    /\ NoHistory /\ NoThreads
    /\ pc = "call"
    /\ args \in FlowInputs
    /\ ret = NoValue

CallAnalyzeDailyFlow ==
    /\ pc = "call"
    /\ ret' = analyze_daily_flow(args.pillars, args.flow_day)
    /\ pc' = "done"
    /\ UNCHANGED <<web, tables, args, history, threads>>

NextFlow == CallAnalyzeDailyFlow

SpecFlow == InitFlow /\ [][NextFlow]_vars

\* the user's day branch clashes with the daily branch
DayBranchClashes(a) == SIX_CLASHES[a.pillars.day.branch] = a.flow_day.branch

\* C28: the nobleman score is one of 0, 5, 7, 10, 15, 20 and at most 10 when
\* the user's day branch clashes with the daily branch, so a relation type of
\* 'clash' never comes with a nobleman score of 15 or more, and the engine's
\* +8 bonus is never applied together with a clash.
C28_NoblemanUnderClash ==
    pc = "done" =>
        /\ ret.nobleman_score \in {0, 5, 7, 10, 15, 20}
        /\ DayBranchClashes(args) => ret.nobleman_score <= 10
        /\ ~(ret.branch_influence.relation_type = "clash"
             /\ ret.nobleman_score >= 15)
        /\ ret.branch_influence.relation_type = "clash"
              => NoblemanMod(ret.nobleman_score) # 800

\* C28 witness: the daily branch hai is a nobleman branch of the day master
\* ding and of the year stem bing and clashes with the day branch si; the
\* score 20 has been halved to 10.
C28_Witness ==
    /\ pc = "done"
    /\ args.pillars.day = [stem |-> "tg_ding", branch |-> "dz_si"]
    /\ args.pillars.year.stem = "tg_bing"
    /\ args.flow_day.branch = "dz_hai"
    /\ DayBranchClashes(args)
    /\ ret.branch_influence.relation_type = "clash"
    /\ ret.nobleman_score = 10

(***************************************************************************)
(* When the bureau override fires (SpecBody)                               *)
(***************************************************************************)
\* the four-branch Earth set
EarthSet == {"dz_chen", "dz_xu", "dz_chou", "dz_wei"}

\* the three branches are pairwise distinct and together are one of the
\* eight three-branch sets
FormsThreeBranchSet(p) ==
    /\ p.year.branch # p.month.branch
    /\ p.year.branch # p.day.branch
    /\ p.month.branch # p.day.branch
    /\ \E s \in ThreeBranchSets : s[2] = ChartBranches(p)

\* C29: for a chart of three pillars the bureau override fires exactly when
\* the three branches are pairwise distinct and together equal one of the
\* eight three-branch sets of Wood, Fire, Metal or Water; the four-branch
\* Earth set is never satisfied, so no result is forced by an Earth bureau.
C29_OverrideExactlyOnThreeSets ==
    pc = "done" =>
        /\ HasOverride(args) <=> FormsThreeBranchSet(args)
        /\ ~(EarthSet \subseteq ChartBranches(args))
        /\ ~FormsThreeBranchSet(args)
              => ret = StrengthBand(WeightedScore(args.day.stem, args))

\* C29 witness: three branches of the Earth set; no override, and the result
\* is the band of the weighted score.
C29_Witness ==
    /\ pc = "done"
    /\ ChartBranches(args) = {"dz_chen", "dz_xu", "dz_chou"}
    /\ ~HasOverride(args)
    /\ ret = StrengthBand(WeightedScore(args.day.stem, args))

(***************************************************************************)
(* SpecDraw: NumDrawers callers of TarotService.draw_daily_card and        *)
(* TarotService.get_card_by_id for one user and one date.  Each query of   *)
(* the store is one step; the steps of different callers interleave.  The  *)
(* table user_daily_draws keeps (user_id, draw_date) unique.               *)
(***************************************************************************)
NumDrawers == 2

Drawers == 1..NumDrawers

\* rows of tarot_cards (ids 1..card_count) and the two orientations
CardIds == {1, 2}
Orientations == {"upright", "reversed"}

\* the one user and date of the calls
DrawKey == [user_id |-> "u1", draw_date |-> "d1"]

DrawRecord(card_id, orientation) ==
    [user_id |-> DrawKey.user_id, draw_date |-> DrawKey.draw_date,
     card_id |-> card_id, orientation |-> orientation]

\* the rows of user_daily_draws of the user and date
RecordsOfKey ==
    {r \in user_daily_draws :
        r.user_id = DrawKey.user_id /\ r.draw_date = DrawKey.draw_date}

\* lines 137-148: what _get_draw_record can return, as a list: one row, or
\* nothing (None) when there is none or the query raises
GetDrawRecordResults == {<<r>> : r \in RecordsOfKey} \cup {<<>>}

IdleDrawer ==
    [op |-> "none", pc |-> "idle", card_id |-> NoValue, orientation |-> NoValue,
     is_new_draw |-> FALSE, persist |-> FALSE, raced |-> FALSE,
     ret |-> NoValue]

InitDraw ==
    /\ TablesInit
    /\ NoHistory
    /\ _fortune_cache = <<>> /\ daily_fortune_details = <<>> /\ locals = <<>>
    /\ pc = "idle" /\ args = NoValue /\ ret = NoValue
    /\ user_daily_draws \in {{}, {DrawRecord(1, "reversed")}}
    /\ threads = [t \in Drawers |-> IdleDrawer]

DrawerStep(t, rec) ==
    /\ threads' = [threads EXCEPT ![t] = rec]
    /\ UNCHANGED <<tables, pc, args, ret, history, _fortune_cache,
                   daily_fortune_details, locals>>

\* lines 25-27: no rows in tarot_cards ends the call with an error
StartDrawDailyCard(t) ==
    /\ threads[t].pc = "idle"
    /\ \E card_count \in {0, Cardinality(CardIds)} :
          DrawerStep(t, [threads[t] EXCEPT
              !.op = "draw_daily_card",
              !.pc = IF card_count = 0 THEN "done" ELSE "get_record",
              !.ret = IF card_count = 0 THEN [error |-> "no_cards"] ELSE NoValue])
    /\ UNCHANGED user_daily_draws

\* lines 29-41
DrawGetRecord(t) ==
    /\ threads[t].op = "draw_daily_card" /\ threads[t].pc = "get_record"
    /\ \E existing_record \in GetDrawRecordResults :
          DrawerStep(t,
              IF existing_record # <<>>
              THEN [threads[t] EXCEPT !.card_id = existing_record[1].card_id,
                                      !.orientation = existing_record[1].orientation,
                                      !.is_new_draw = FALSE, !.pc = "build"]
              ELSE [threads[t] EXCEPT !.pc = "draw"])
    /\ UNCHANGED user_daily_draws

\* a variant of SaveOutcomes for a table without the unique key
SaveOutcomes_NoUniqueKey(rec) ==
    {[kind |-> "inserted", table |-> user_daily_draws \cup {rec}],
     [kind |-> "raised", table |-> user_daily_draws],
     [kind |-> "nothing", table |-> user_daily_draws]}

\* lines 205-232, the insert of _save_user_draw for the row rec: the next
\* position of the caller and the new table
\*   inserted  : response.data is the new row (lines 213-215)
\*   duplicate : the unique key rejects the row; an error naming it or an
\*               exception (lines 218-230) leads to the query of the row
\*   raised    : the insert raises for another reason (lines 226-230)
\*   nothing   : neither data nor a duplicate error (line 232)
SaveOutcomes(rec) ==
    (IF RecordsOfKey = {}
     THEN {[kind |-> "inserted", table |-> user_daily_draws \cup {rec}]}
     ELSE {[kind |-> "duplicate", table |-> user_daily_draws]})
    \cup {[kind |-> "raised", table |-> user_daily_draws],
          [kind |-> "nothing", table |-> user_daily_draws]}

\* lines 156-167: the random draw and the insert
DrawAndSave(t) ==
    /\ threads[t].op = "draw_daily_card" /\ threads[t].pc = "draw"
    /\ \E card_id \in CardIds, orientation \in Orientations :
       \E o \in SaveOutcomes(DrawRecord(card_id, orientation)) :
          /\ user_daily_draws' = o.table
          /\ DrawerStep(t,
                CASE o.kind = "inserted" ->
                        [threads[t] EXCEPT !.card_id = card_id,
                                           !.orientation = orientation,
                                           !.is_new_draw = TRUE, !.pc = "build"]
                  [] o.kind = "nothing" ->
                        [threads[t] EXCEPT !.pc = "fallback_read"]
                  [] OTHER ->
                        [threads[t] EXCEPT !.pc = "save_reread",
                                           !.raced = (o.kind = "duplicate")])

\* lines 222-224 and 228-230 under _draw_and_save: the row read after a
\* failed insert is returned with is_new False
DrawSaveReread(t) ==
    /\ threads[t].op = "draw_daily_card" /\ threads[t].pc = "save_reread"
    /\ \E existing \in GetDrawRecordResults :
          DrawerStep(t,
              IF existing # <<>>
              THEN [threads[t] EXCEPT !.card_id = existing[1].card_id,
                                      !.orientation = existing[1].orientation,
                                      !.is_new_draw = FALSE, !.pc = "build"]
              ELSE [threads[t] EXCEPT !.pc = "fallback_read"])
    /\ UNCHANGED user_daily_draws

\* lines 169-174 and 43-45
DrawFallbackRead(t) ==
    /\ threads[t].op = "draw_daily_card" /\ threads[t].pc = "fallback_read"
    /\ \E existing \in GetDrawRecordResults :
          DrawerStep(t,
              IF existing # <<>>
              THEN [threads[t] EXCEPT !.card_id = existing[1].card_id,
                                      !.orientation = existing[1].orientation,
                                      !.is_new_draw = FALSE, !.pc = "build"]
              ELSE [threads[t] EXCEPT !.pc = "done",
                                      !.ret = [error |-> "draw_failed"]])
    /\ UNCHANGED user_daily_draws

\* lines 234-292: the reading of the card, an error when tarot_cards has no
\* such row; the query can raise
BuildOutcomes == {"card", "not_found", "raised"}

\* lines 47-49
DrawBuildResponse(t) ==
    /\ threads[t].op = "draw_daily_card" /\ threads[t].pc = "build"
    /\ \E o \in BuildOutcomes :
          DrawerStep(t, [threads[t] EXCEPT
              !.pc = "done",
              !.ret = CASE o = "card" ->
                             [card_id |-> threads[t].card_id,
                              orientation |-> threads[t].orientation,
                              is_new_draw |-> threads[t].is_new_draw]
                        [] o = "not_found" ->
                             [error |-> "not_found",
                              is_new_draw |-> threads[t].is_new_draw]
                        [] OTHER -> [raised |-> TRUE]])
    /\ UNCHANGED user_daily_draws

\* lines 51-65: the card and orientation come from the caller
StartGetCardById(t) ==
    /\ threads[t].pc = "idle"
    /\ \E card_id \in CardIds, orientation \in Orientations, persist \in BOOLEAN :
          DrawerStep(t, [threads[t] EXCEPT
              !.op = "get_card_by_id",
              !.card_id = card_id, !.orientation = orientation,
              !.persist = persist,
              !.pc = IF persist THEN "get_record" ELSE "build"])
    /\ UNCHANGED user_daily_draws

\* lines 182-184: with a row on record _ensure_draw_record returns at once
EnsureGetRecord(t) ==
    /\ threads[t].op = "get_card_by_id" /\ threads[t].pc = "get_record"
    /\ \E existing \in GetDrawRecordResults :
          DrawerStep(t, [threads[t] EXCEPT
              !.pc = IF existing # <<>> THEN "build" ELSE "insert"])
    /\ UNCHANGED user_daily_draws

\* lines 186-197: the insert; whatever it returns the caller goes on
EnsureSave(t) ==
    /\ threads[t].op = "get_card_by_id" /\ threads[t].pc = "insert"
    /\ \E o \in SaveOutcomes(DrawRecord(threads[t].card_id, threads[t].orientation)) :
          /\ user_daily_draws' = o.table
          /\ DrawerStep(t, [threads[t] EXCEPT
                !.pc = IF o.kind \in {"duplicate", "raised"}
                       THEN "save_reread" ELSE "build",
                !.raced = (o.kind = "duplicate")])

\* lines 222-224 and 228-230 under _ensure_draw_record
EnsureSaveReread(t) ==
    /\ threads[t].op = "get_card_by_id" /\ threads[t].pc = "save_reread"
    /\ \E existing \in GetDrawRecordResults :
          DrawerStep(t, [threads[t] EXCEPT !.pc = "build"])
    /\ UNCHANGED user_daily_draws

\* lines 67-73: the reading of the card the caller passed
GetCardBuildResponse(t) ==
    /\ threads[t].op = "get_card_by_id" /\ threads[t].pc = "build"
    /\ \E o \in BuildOutcomes :
          DrawerStep(t, [threads[t] EXCEPT
              !.pc = "done",
              !.ret = IF o = "card"
                      THEN [card_id |-> threads[t].card_id,
                            orientation |-> threads[t].orientation,
                            persist |-> threads[t].persist]
                      ELSE [error |-> o]])
    /\ UNCHANGED user_daily_draws

NextDraw ==
    \E t \in Drawers :
        \/ StartDrawDailyCard(t)
        \/ DrawGetRecord(t)
        \/ DrawAndSave(t)
        \/ DrawSaveReread(t)
        \/ DrawFallbackRead(t)
        \/ DrawBuildResponse(t)
        \/ StartGetCardById(t)
        \/ EnsureGetRecord(t)
        \/ EnsureSave(t)
        \/ EnsureSaveReread(t)
        \/ GetCardBuildResponse(t)

SpecDraw == InitDraw /\ [][NextDraw]_vars

\* the call of caller t has returned a card
ReturnedCard(t, op) ==
    /\ threads[t].op = op /\ threads[t].pc = "done"
    /\ "card_id" \in DOMAIN threads[t].ret

\* a row of the user and date holds the card and orientation caller t returned
OnRecord(t) ==
    \E r \in RecordsOfKey :
        /\ r.card_id = threads[t].ret.card_id
        /\ r.orientation = threads[t].ret.orientation

\* C22: for the user and date at most one draw record exists, every
\* draw_daily_card call that returns a card returns the card id and
\* orientation of that record, and is_new_draw is true for at most one call,
\* also when the calls race on the insert.
C22_OneDrawPerDay ==
    /\ Cardinality(RecordsOfKey) <= 1
    /\ \A t \in Drawers : ReturnedCard(t, "draw_daily_card") => OnRecord(t)
    /\ Cardinality({t \in Drawers : /\ ReturnedCard(t, "draw_daily_card")
                                    /\ threads[t].ret.is_new_draw}) <= 1

\* C22 witness: two draw_daily_card calls raced on the insert; the loser was
\* rejected by the unique key and both have returned the card on record.
C22_Witness ==
    \E t1, t2 \in Drawers :
        /\ t1 # t2
        /\ ReturnedCard(t1, "draw_daily_card") /\ ReturnedCard(t2, "draw_daily_card")
        /\ threads[t1].ret.is_new_draw /\ ~threads[t2].ret.is_new_draw
        /\ threads[t2].raced
        /\ OnRecord(t1) /\ OnRecord(t2)

\* C30: after get_card_by_id(..., persist=True) returns a card, the draw
\* record of the user and date holds the card id and orientation of the
\* returned reading, also when a record existed before the call.
C30_CardOnRecord ==
    \A t \in Drawers :
        (ReturnedCard(t, "get_card_by_id") /\ threads[t].ret.persist)
            => OnRecord(t)

\* get_card_by_id has returned a card that differs from the card of the
\* record an earlier draw left
C30_ReturnedOtherCard ==
    \E t \in Drawers :
        /\ ReturnedCard(t, "get_card_by_id") /\ threads[t].ret.persist
        /\ RecordsOfKey # {}
        /\ ~OnRecord(t)

(***************************************************************************)
(* SpecRequests: successive requests to get_daily_fortune for one user,    *)
(* date and language in one process.  _fortune_cache and the row of        *)
(* daily_fortune_details outlive a request; the cache entry grows older    *)
(* than _fortune_cache_ttl as time passes.                                 *)
(***************************************************************************)
MaxRequests == 2

InitRequests ==
    /\ InitDaily
    /\ _fortune_cache = <<>>
    /\ user_daily_draws = <<>>

\* lines 186-205: the next call of the endpoint
NewRequest ==
    /\ pc = "done"
    /\ locals.request < MaxRequests
    /\ args' \in DailyRequests
    /\ pc' = "parse_date"
    /\ ret' = NoValue
    /\ history' = <<>>
    /\ locals' = [entry |-> <<_fortune_cache, daily_fortune_details, user_daily_draws>>,
                  user_memory |-> NoValue, bazi_analysis |-> NoValue,
                  tarot_reading |-> NoValue, battery_fortune |-> NoValue,
                  request |-> locals.request + 1]
    /\ UNCHANGED <<tables, threads, _fortune_cache, daily_fortune_details,
                   user_daily_draws>>

\* lines 41-42 and 366-367: _fortune_cache_ttl seconds pass since the entry
\* was written
Expire ==
    /\ CacheKey \in DOMAIN _fortune_cache
    /\ _fortune_cache[CacheKey].fresh
    /\ _fortune_cache' = [_fortune_cache EXCEPT ![CacheKey].fresh = FALSE]
    /\ UNCHANGED <<tables, args, ret, pc, history, threads, daily_fortune_details,
                   user_daily_draws, locals>>

NextRequests == NextDaily \/ NewRequest \/ Expire

SpecRequests == InitRequests /\ [][NextRequests]_vars

\* the three parts of a response
Parts(result) ==
    FortuneRow(result.bazi_analysis, result.tarot_reading, result.battery_fortune)

\* the row that was stored when the request came in
StoredAtEntry == locals.entry[2]
Regenerates == Called("analyze_daily_flow") \/ Called("get_card_by_id")
                \/ Called("draw_daily_card") \/ Called("generate_battery_fortune")

\* C23: once a fortune is stored for the key, a call without
\* force_regenerate runs no analysis, drawing or generation, leaves the
\* stored row as it is, and answers with the three parts of that row; only
\* a call with force_regenerate regenerates and overwrites.
C23_CacheFirst ==
    (/\ CacheKey \in DOMAIN StoredAtEntry
     /\ ~args.force_regenerate)
    => /\ ~Regenerates
       /\ daily_fortune_details = StoredAtEntry
       /\ (pc = "done" /\ ret.status = 200 /\ ~args.use_mock
             => Parts(ret.body) = StoredAtEntry[CacheKey])

\* What a request that hit the cache or found the row has done: nothing
\* was analysed, drawn or generated, the row is as it was, and the answer
\* is what was found.
C23_FoundIsReturned ==
    (pc = "done" /\ (Called("_fortune_cache") \/ Called("daily_fortune_details")))
    => /\ ~Regenerates
       /\ daily_fortune_details = StoredAtEntry
       /\ ret.status = 200
       /\ Called("daily_fortune_details")
             => /\ Parts(ret.body) = StoredAtEntry[CacheKey]
                /\ _fortune_cache[CacheKey].data = ret.body
       /\ Called("_fortune_cache")
             => /\ ret.body = locals.entry[1][CacheKey].data
                /\ _fortune_cache[CacheKey].data = ret.body

\* A request without force_regenerate whose query of the stored row raised
\* has generated a new fortune and overwritten the row.
C23_RegeneratedWithoutForce ==
    /\ pc = "done"
    /\ ~args.force_regenerate
    /\ CacheKey \in DOMAIN StoredAtEntry
    /\ Regenerates
    /\ ret.status = 200
    /\ daily_fortune_details[CacheKey] # StoredAtEntry[CacheKey]

\* A request without force_regenerate has answered from a cache entry that
\* a forced request wrote although its upsert failed: the answer is not the
\* stored fortune.
C23_CacheNotStored ==
    /\ pc = "done"
    /\ ~args.force_regenerate
    /\ Called("_fortune_cache")
    /\ CacheKey \in DOMAIN daily_fortune_details
    /\ Parts(ret.body) # daily_fortune_details[CacheKey]

(***************************************************************************)
(* SpecTracker: a ThinkingStateTracker (docs/agui_endpoint.py lines        *)
(* 74-189) under any sequence of calls.  locals is the tracker object,     *)
(* history the events its calls have returned, in order, and args the      *)
(* last call.  A message id is <<>> for the empty string and <<n>> for     *)
(* the n-th value of uuid.uuid4().                                         *)
(***************************************************************************)
MaxTrackerCalls == 4

\* the text chunks a model sends: empty, blank, and text
Deltas == {"", " ", "text"}
Blank(delta) == delta \in {"", " "}

Event(type, message_id, delta) ==
    [type |-> type, message_id |-> message_id, delta |-> delta]

\* lines 94-99
TrackerInit ==
    [in_thinking |-> FALSE, in_answer |-> FALSE,
     thinking_msg_id |-> <<>>, answer_msg_id |-> <<>>, uuid4 |-> 0]

\* what a method leaves: the object and the events it returns
Out(self, events) == [self |-> self, events |-> events]

\* lines 160-168
_close_answer(self) ==
    IF self.in_answer
    THEN Out([self EXCEPT !.in_answer = FALSE],
             <<Event("TEXT_MESSAGE_END", self.answer_msg_id, "")>>)
    ELSE Out(self, <<>>)

\* lines 119-130
_close_thinking(self) ==
    IF self.in_thinking
    THEN Out([self EXCEPT !.in_thinking = FALSE],
             <<Event("THINKING_TEXT_MESSAGE_END", self.thinking_msg_id, ""),
               Event("THINKING_END", <<>>, "")>>)
    ELSE Out(self, <<>>)

\* a variant of _open_thinking that leaves an open answer open
_open_thinking_KeepAnswer(self) ==
    IF ~self.in_thinking
    THEN LET id == <<self.uuid4 + 1>>
         IN  Out([self EXCEPT !.thinking_msg_id = id, !.uuid4 = @ + 1,
                              !.in_thinking = TRUE],
                 <<Event("THINKING_START", <<>>, ""),
                   Event("THINKING_TEXT_MESSAGE_START", id, "")>>)
    ELSE Out(self, <<>>)

\* lines 103-118
_open_thinking(self) ==
    LET closed == _close_answer(self)
        s == closed.self
    IN  IF ~s.in_thinking
        THEN LET id == <<s.uuid4 + 1>>
             IN  Out([s EXCEPT !.thinking_msg_id = id, !.uuid4 = @ + 1,
                               !.in_thinking = TRUE],
                     closed.events \o
                     <<Event("THINKING_START", <<>>, ""),
                       Event("THINKING_TEXT_MESSAGE_START", id, "")>>)
        ELSE Out(s, closed.events)

\* lines 132-142
emit_thinking(self, delta) ==
    IF Blank(delta)
    THEN Out(self, <<>>)
    ELSE LET opened == _open_thinking(self)
         IN  Out(opened.self,
                 Append(opened.events,
                        Event("THINKING_TEXT_MESSAGE_CONTENT",
                              opened.self.thinking_msg_id, delta)))

\* lines 146-158
_open_answer(self) ==
    LET closed == _close_thinking(self)
        s == closed.self
    IN  IF ~s.in_answer
        THEN LET id == <<s.uuid4 + 1>>
             IN  Out([s EXCEPT !.answer_msg_id = id, !.uuid4 = @ + 1,
                               !.in_answer = TRUE],
                     Append(closed.events, Event("TEXT_MESSAGE_START", id, "")))
        ELSE Out(s, closed.events)

\* lines 170-180
emit_answer(self, delta) ==
    IF delta = ""
    THEN Out(self, <<>>)
    ELSE LET opened == _open_answer(self)
         IN  Out(opened.self,
                 Append(opened.events,
                        Event("TEXT_MESSAGE_CONTENT", opened.self.answer_msg_id,
                              delta)))

\* lines 184-189
close_all(self) ==
    LET thinking == _close_thinking(self)
        answer == _close_answer(thinking.self)
    IN  Out(answer.self, thinking.events \o answer.events)

TrackerCall(op, delta) == [op |-> op, delta |-> delta, n |-> args.n + 1]

InitTracker ==
    /\ TablesInit /\ NoThreads
    /\ _fortune_cache = <<>>
    /\ daily_fortune_details = <<>>
    /\ user_daily_draws = <<>>
    /\ pc = "tracker"
    /\ args = [op |-> "__init__", delta |-> "", n |-> 0]
    /\ ret = <<>>
    /\ history = <<>>
    /\ locals = TrackerInit

\* a call leaves the object and hands its events to the stream
TrackerStep(op, delta, out) ==
    /\ pc = "tracker"
    /\ args.n < MaxTrackerCalls
    /\ args' = TrackerCall(op, delta)
    /\ locals' = out.self
    /\ ret' = out.events
    /\ history' = history \o out.events
    /\ UNCHANGED <<tables, pc, threads, _fortune_cache, daily_fortune_details,
                   user_daily_draws>>

CallEmitThinking ==
    \E delta \in Deltas : TrackerStep("emit_thinking", delta, emit_thinking(locals, delta))

CallEmitAnswer ==
    \E delta \in Deltas : TrackerStep("emit_answer", delta, emit_answer(locals, delta))

CallCloseAll == TrackerStep("close_all", "", close_all(locals))

NextTracker == CallEmitThinking \/ CallEmitAnswer \/ CallCloseAll

SpecTracker == InitTracker /\ [][NextTracker]_vars

StartTypes == {"THINKING_TEXT_MESSAGE_START", "TEXT_MESSAGE_START"}
EndOf(type) ==
    IF type = "TEXT_MESSAGE_START" THEN "TEXT_MESSAGE_END"
    ELSE "THINKING_TEXT_MESSAGE_END"

\* event i is a start whose end, with the same message id, comes before
\* event j
ClosedBefore(events, i, j) ==
    \E k \in (i + 1)..(j - 1) :
        /\ events[k].type = EndOf(events[i].type)
        /\ events[k].message_id = events[i].message_id

IsStart(events, i) == events[i].type \in StartTypes

\* C24: in_thinking and in_answer are never both true; in the events
\* emitted so far every start of a thinking or answer message has its end,
\* with the same message id, before the next start of either kind; and
\* after close_all both flags are false and no message is left open.
C24_NoStartWhileOpen ==
    /\ ~(locals.in_thinking /\ locals.in_answer)
    /\ \A i, j \in 1..Len(history) :
          (i < j /\ IsStart(history, i) /\ IsStart(history, j))
             => ClosedBefore(history, i, j)
    /\ args.op = "close_all"
          => /\ ~locals.in_thinking /\ ~locals.in_answer
             /\ \A i \in 1..Len(history) :
                   IsStart(history, i) => ClosedBefore(history, i, Len(history) + 1)

\* C24 witness: an answer was open when thinking text came, thinking was
\* open when answer text came, and close_all has closed the last message.
C24_Witness ==
    /\ args.op = "close_all"
    /\ Len(history) > 0
    /\ \E i, j, k \in 1..Len(history) :
          /\ i < j /\ j < k
          /\ history[i].type = "TEXT_MESSAGE_START"
          /\ history[j].type = "THINKING_TEXT_MESSAGE_START"
          /\ history[k].type = "TEXT_MESSAGE_START"
    /\ history[Len(history)].type = "TEXT_MESSAGE_END"

(***************************************************************************)
(* SpecStream: the event stream of one request to agui_agent_endpoint      *)
(* (app/agui_endpoint.py lines 97-302).  history is the stream so far,     *)
(* locals the variables of the handler and of event_stream, args the       *)
(* request.  The graph is taken by the events it sends: a model call       *)
(* streams chunks between its start and its end, and the graph may raise   *)
(* at any point.  An identifier is one given by the request, one made by   *)
(* uuid.uuid4(), one of a tool call, or none.                              *)
(***************************************************************************)
MaxGraphEvents == 4

NoId == [kind |-> "none", n |-> 0]
RequestId(n) == [kind |-> "request", n |-> n]
Uuid4(n) == [kind |-> "uuid4", n |-> n]
ToolCallId(n) == [kind |-> "tool_call", n |-> n]

\* lines 58-60: threadId and runId default to the empty string
StreamRequests == [thread_id : {NoId, RequestId(1)}, run_id : {NoId, RequestId(2)}]

\* the tool call chunks a model streams: the id (or index) and the args
ToolCallChunks == [id : {NoId, ToolCallId(1), ToolCallId(2)}, args : {"", "{}"}]

\* the text of a chunk
ChunkContents == {"", "text"}

StreamEvent(type, id, thread_id, run_id) ==
    [type |-> type, id |-> id, thread_id |-> thread_id, run_id |-> run_id]

\* an event that carries a message id or a tool call id
IdEvent(type, id) == StreamEvent(type, id, NoId, NoId)

\* lines 127-133, 258-264 and 290-296: RunStartedEvent and RunFinishedEvent
\* with run_id=input_data.run_id or str(uuid.uuid4())
RunEvent(type) ==
    StreamEvent(type, NoId, locals.thread_id,
                IF args.run_id # NoId THEN args.run_id ELSE Uuid4(locals.uuid4 + 1))

UuidsAfterRunEvent == IF args.run_id # NoId THEN locals.uuid4 ELSE locals.uuid4 + 1

\* lines 104-115: thread_id = input_data.thread_id or str(uuid.uuid4())
InitStream ==
    /\ TablesInit /\ NoThreads
    /\ _fortune_cache = <<>>
    /\ daily_fortune_details = <<>>
    /\ user_daily_draws = <<>>
    /\ pc = "get_graph"
    /\ args \in StreamRequests
    /\ ret = NoValue
    /\ history = <<>>
    /\ locals = [thread_id |-> IF args.thread_id # NoId THEN args.thread_id
                                ELSE Uuid4(1),
                 uuid4 |-> IF args.thread_id # NoId THEN 0 ELSE 1,
                 current_message_id |-> NoId,
                 current_tool_call_ids |-> {},
                 model_running |-> FALSE,
                 graph_events |-> 0]

StreamUnchanged ==
    UNCHANGED <<tables, args, ret, threads, _fortune_cache, daily_fortune_details,
                user_daily_draws>>

\* line 124: get_graph() builds the graph on first use and may raise
GetGraph ==
    /\ pc = "get_graph"
    /\ \E raised \in BOOLEAN :
          pc' = IF raised THEN "except" ELSE "run_started"
    /\ UNCHANGED <<history, locals>>
    /\ StreamUnchanged

\* lines 126-133
RunStarted ==
    /\ pc = "run_started"
    /\ history' = Append(history, RunEvent("RUN_STARTED"))
    /\ locals' = [locals EXCEPT !.uuid4 = UuidsAfterRunEvent]
    /\ pc' = "astream_events"
    /\ StreamUnchanged

\* the next event of graph.astream_events (lines 150-154) is handled
GraphEvent(events, handler_locals) ==
    /\ pc = "astream_events"
    /\ locals.graph_events < MaxGraphEvents
    /\ history' = history \o events
    /\ locals' = [handler_locals EXCEPT !.graph_events = @ + 1]
    /\ pc' = pc
    /\ StreamUnchanged

\* an event kind the loop has no branch for: a model call begins
OnChatModelStart ==
    /\ ~locals.model_running
    /\ GraphEvent(<<>>, [locals EXCEPT !.model_running = TRUE])

\* lines 166-191: a chunk with tool call chunks (one, here)
ToolCallEvents(tc) ==
    (IF tc.id # NoId /\ tc.id \notin locals.current_tool_call_ids
     THEN <<IdEvent("TOOL_CALL_START", tc.id)>> ELSE <<>>)
    \o (IF tc.args # "" THEN <<IdEvent("TOOL_CALL_ARGS", tc.id)>> ELSE <<>>)

OnToolCallChunk ==
    /\ locals.model_running
    /\ \E tc \in ToolCallChunks :
          GraphEvent(ToolCallEvents(tc),
                     [locals EXCEPT !.current_tool_call_ids =
                          IF tc.id # NoId THEN @ \cup {tc.id} ELSE @])

\* lines 194-222: a chunk with text; the first text of a message opens it
OnTextChunk ==
    /\ locals.model_running
    /\ \E content \in ChunkContents :
          IF content = ""
          THEN GraphEvent(<<>>, locals)
          ELSE IF locals.current_message_id = NoId
          THEN LET id == Uuid4(locals.uuid4 + 1)
               IN  GraphEvent(<<IdEvent("TEXT_MESSAGE_START", id),
                                IdEvent("TEXT_MESSAGE_CONTENT", id)>>,
                              [locals EXCEPT !.current_message_id = id,
                                             !.uuid4 = @ + 1])
          ELSE GraphEvent(<<IdEvent("TEXT_MESSAGE_CONTENT", locals.current_message_id)>>,
                          locals)

\* the orders in which list(current_tool_call_ids) may come
RECURSIVE Orders(_)
Orders(ids) ==
    IF ids = {} THEN {<<>>}
    ELSE UNION {{<<id>> \o rest : rest \in Orders(ids \ {id})} : id \in ids}

ToolCallEnds(order) == [i \in 1..Len(order) |-> IdEvent("TOOL_CALL_END", order[i])]

\* lines 225-244: the model call ends, what is open is closed
OnChatModelEnd ==
    /\ locals.model_running
    /\ \E order \in Orders(locals.current_tool_call_ids) :
          GraphEvent(ToolCallEnds(order)
                     \o (IF locals.current_message_id # NoId
                         THEN <<IdEvent("TEXT_MESSAGE_END", locals.current_message_id)>>
                         ELSE <<>>),
                     [locals EXCEPT !.current_tool_call_ids = {},
                                    !.current_message_id = NoId,
                                    !.model_running = FALSE])

\* lines 247-255: on_tool_start and on_tool_end are logged
OnToolEvent ==
    /\ ~locals.model_running
    /\ GraphEvent(<<>>, locals)

\* lines 136-154: converting the messages or running the graph raises
GraphRaises ==
    /\ pc = "astream_events"
    /\ pc' = "except"
    /\ UNCHANGED <<history, locals>>
    /\ StreamUnchanged

\* lines 257-264: the graph has no more events
RunFinished ==
    /\ pc = "astream_events"
    /\ ~locals.model_running
    /\ history' = Append(history, RunEvent("RUN_FINISHED"))
    /\ locals' = [locals EXCEPT !.uuid4 = UuidsAfterRunEvent]
    /\ pc' = "done"
    /\ ret' = "finished"
    /\ UNCHANGED <<tables, args, threads, _fortune_cache, daily_fortune_details,
                   user_daily_draws>>

\* lines 266-296: the error message and RUN_FINISHED
Except ==
    /\ pc = "except"
    /\ LET err_id == Uuid4(locals.uuid4 + 1)
           after == [locals EXCEPT !.uuid4 = @ + 1]
       IN  /\ history' = history \o
                 <<IdEvent("TEXT_MESSAGE_START", err_id),
                   IdEvent("TEXT_MESSAGE_CONTENT", err_id),
                   IdEvent("TEXT_MESSAGE_END", err_id),
                   StreamEvent("RUN_FINISHED", NoId, locals.thread_id,
                               IF args.run_id # NoId THEN args.run_id
                               ELSE Uuid4(after.uuid4 + 1))>>
           /\ locals' = [after EXCEPT !.uuid4 =
                            IF args.run_id # NoId THEN @ ELSE @ + 1]
    /\ pc' = "done"
    /\ ret' = "error"
    /\ UNCHANGED <<tables, args, threads, _fortune_cache, daily_fortune_details,
                   user_daily_draws>>

NextStream ==
    \/ GetGraph \/ RunStarted \/ OnChatModelStart \/ OnToolCallChunk
    \/ OnTextChunk \/ OnChatModelEnd \/ OnToolEvent \/ GraphRaises
    \/ RunFinished \/ Except

SpecStream == InitStream /\ [][NextStream]_vars

TypesOf(type) == {i \in 1..Len(history) : history[i].type = type}

\* C25: a finished stream starts with RUN_STARTED and ends with its one
\* RUN_FINISHED, which carries the thread_id and the run_id of the
\* RUN_STARTED; also without a runId in the request and when building or
\* running the graph raised.
C25_RunStartedToRunFinished ==
    pc = "done"
    => /\ history[1].type = "RUN_STARTED"
       /\ history[Len(history)].type = "RUN_FINISHED"
       /\ Cardinality(TypesOf("RUN_FINISHED")) = 1
       /\ history[Len(history)].thread_id = history[1].thread_id
       /\ history[Len(history)].run_id = history[1].run_id

\* What every finished stream does have: one RUN_FINISHED, at its end, with
\* the thread id of the handler, and no RUN_STARTED but the first event.
C25_OneRunFinishedLast ==
    /\ pc = "done"
         => /\ TypesOf("RUN_FINISHED") = {Len(history)}
            /\ history[Len(history)].thread_id = locals.thread_id
    /\ pc # "done" => TypesOf("RUN_FINISHED") = {}
    /\ TypesOf("RUN_STARTED") \subseteq {1}

\* A stream that finished on the normal path for a request without runId:
\* RUN_STARTED and RUN_FINISHED carry two different run ids.
C25_TwoRunIds ==
    /\ pc = "done"
    /\ args.run_id = NoId
    /\ history[1].type = "RUN_STARTED"
    /\ Cardinality(TypesOf("TEXT_MESSAGE_START")) = 1
    /\ history[Len(history)].run_id # history[1].run_id

\* A stream whose graph could not be built: it starts with the error
\* message, there is no RUN_STARTED.
C25_NoRunStarted ==
    /\ pc = "done"
    /\ TypesOf("RUN_STARTED") = {}
    /\ history[1].type = "TEXT_MESSAGE_START"

OpenTypes == {"TEXT_MESSAGE_START", "TOOL_CALL_START"}
CloseOf(type) == IF type = "TOOL_CALL_START" THEN "TOOL_CALL_END" ELSE "TEXT_MESSAGE_END"

\* event i opens a message or tool call whose end, with the same id, comes
\* before event j
EndsBefore(i, j) ==
    \E k \in (i + 1)..(j - 1) :
        /\ history[k].type = CloseOf(history[i].type)
        /\ history[k].id = history[i].id

\* C26: every TEXT_MESSAGE_START and TOOL_CALL_START of the stream has its
\* end, with the same id, before the next TEXT_MESSAGE_START and before
\* RUN_FINISHED, also when the graph raised in the middle of a message or
\* tool call.
C26_ClosedBeforeNextStart ==
    \A i, j \in 1..Len(history) :
        (/\ i < j
         /\ history[i].type \in OpenTypes
         /\ history[j].type \in {"TEXT_MESSAGE_START", "RUN_FINISHED"})
        => EndsBefore(i, j)

\* What holds of text messages on the path without an exception: a message
\* is closed before the next message starts and before RUN_FINISHED, and
\* every tool call is closed before RUN_FINISHED.
C26_ClosedWithoutException ==
    ret # "error"
    => \A i, j \in 1..Len(history) :
          (/\ i < j
           /\ \/ /\ history[i].type = "TEXT_MESSAGE_START"
                 /\ history[j].type \in {"TEXT_MESSAGE_START", "RUN_FINISHED"}
              \/ /\ history[i].type = "TOOL_CALL_START"
                 /\ history[j].type = "RUN_FINISHED")
          => EndsBefore(i, j)

\* The graph raised while a message and a tool call were open: the error
\* message starts and the run finishes with neither of them ended.
C26_LeftOpenByException ==
    /\ pc = "done"
    /\ ret = "error"
    /\ \E i, t \in 1..Len(history) :
          /\ history[i].type = "TEXT_MESSAGE_START"
          /\ history[t].type = "TOOL_CALL_START"
          /\ ~EndsBefore(i, Len(history))
          /\ ~EndsBefore(t, Len(history))
          /\ history[Len(history)].type = "RUN_FINISHED"
=============================================================================
